---- MODULE Spec2Model ----
(***************************************************************************)
(* A model of the pbench analysis aggregation engine                       *)
(* (contrib/analysis/pbench_combined_data.py) and of the tar ball          *)
(* indexing driver (server/bin/pbench-index.py).                           *)
(***************************************************************************)
EXTENDS Integers, Sequences, FiniteSets, TLC

\* ------------------------------------------------------------------------
\* Bounds of the model
\* ------------------------------------------------------------------------
\* number of add_run / add_result calls made on one collection
MaxCalls == 3
\* number of candidate tar balls handed to the driver
MaxBundles == 3
\* length of the longest sosreports list given to the sosreport check
MaxSos == 3
\* length of the longest run stream and result stream of a partition
MaxStream == 2
\* pieces of the longest string handed to sentence_setify
MaxSentence == 5
\* datasets a list query can match
MaxDatasets == 3

\* ------------------------------------------------------------------------
\* Input domains
\* ------------------------------------------------------------------------
RunIds == {"r1", "r2"}
ResultIds == {"x1", "x2"}
IterNames == {"i1", "i2"}
ClientNameSets == {{}, {"c1"}, {"c1", "c2"}}

\* an optional value: the empty set, or the singleton of the value
None == {}
Some(v) == {v}
TheVal(o) == CHOOSE v \in o : TRUE

\* dict.update(): the keys of g override those of f
DictUpdate(f, g) ==
  [k \in (DOMAIN f) \cup (DOMAIN g) |-> IF k \in DOMAIN g THEN g[k] ELSE f[k]]

\* d[key] = value on a dict
DictSet(d, key, value) ==
  [k \in (DOMAIN d) \cup {key} |-> IF k = key THEN value ELSE d[k]]

EmptyDict == [k \in {} |-> FALSE]

\* the elements of a sequence
Range(s) == {s[i] : i \in DOMAIN s}

\* DiagnosticCheck.initialize_properties: every declared name, set to False
InitialReturn(names) == [n \in Range(names) |-> FALSE]

\* ------------------------------------------------------------------------
\* Run documents and the run checks
\* ------------------------------------------------------------------------
\* a run document: its md5, whether @metadata has controller_dir, and its
\* optional list of sosreports (name of the report, fully qualified host)
SosA == [name |-> "sos-a", hostf |-> "h1"]
SosB == [name |-> "sos-b", hostf |-> "h1"]
SosC == [name |-> "sos-c", hostf |-> "h2"]
SosChoices == {None, Some(<<SosA>>), Some(<<SosA, SosB>>), Some(<<SosA, SosC>>)}
\* the run documents fed to a collection: a well-formed one, one with a single
\* sosreport and one without controller_dir, for each run id
RunDocs ==
  {d \in [md5 : RunIds, ctrl : BOOLEAN, sos : SosChoices] :
     /\ d.sos \in {Some(<<SosA>>), Some(<<SosA, SosB>>)}
     /\ ~d.ctrl => d.sos = Some(<<SosA, SosB>>)}

ControllerDirNames == <<"missing_ctrl_dir">>

ControllerDirRunCheck(doc) ==
  IF ~doc.ctrl
    THEN [ret |-> DictSet(InitialReturn(ControllerDirNames), "missing_ctrl_dir", TRUE),
          issues |-> TRUE]
    ELSE [ret |-> InitialReturn(ControllerDirNames), issues |-> FALSE]

SosreportNames == <<"missing_sosreports", "non_2_sosreports", "sosreports_diff_hosts">>

SosreportRunCheck_independent_ifs(doc) ==
  LET missing == doc.sos = None
      non2 == ~missing /\ Len(TheVal(doc.sos)) # 2
      compared == ~missing /\ Len(TheVal(doc.sos)) >= 2
      diff == compared /\ TheVal(doc.sos)[1].hostf # TheVal(doc.sos)[2].hostf
  IN [ret |-> [n \in Range(SosreportNames) |->
                 CASE n = "missing_sosreports" -> missing
                   [] n = "non_2_sosreports" -> non2
                   [] n = "sosreports_diff_hosts" -> diff],
      issues |-> missing \/ non2 \/ diff,
      compared |-> compared]

\* SosreportRunCheck.diagnostic; compared tells whether the branch that
\* reads the two hostname-f fields was entered
SosreportRunCheck(doc) ==
  IF doc.sos = None
    THEN [ret |-> DictSet(InitialReturn(SosreportNames), "missing_sosreports", TRUE),
          issues |-> TRUE, compared |-> FALSE]
    ELSE IF Len(TheVal(doc.sos)) # 2
      THEN [ret |-> DictSet(InitialReturn(SosreportNames), "non_2_sosreports", TRUE),
            issues |-> TRUE, compared |-> FALSE]
      ELSE IF TheVal(doc.sos)[1].hostf # TheVal(doc.sos)[2].hostf
        THEN [ret |-> DictSet(InitialReturn(SosreportNames), "sosreports_diff_hosts", TRUE),
              issues |-> TRUE, compared |-> TRUE]
        ELSE [ret |-> InitialReturn(SosreportNames), issues |-> FALSE,
              compared |-> TRUE]

\* PbenchCombinedData.data_check over a list of check outcomes, in order
RECURSIVE MergeChecks(_, _)
MergeChecks(outcomes, acc) ==
  IF outcomes = <<>> THEN acc
  ELSE MergeChecks(Tail(outcomes),
                   [ret |-> DictUpdate(acc.ret, Head(outcomes).ret),
                    issues |-> acc.issues \/ Head(outcomes).issues])

data_check(type_diagnostic, outcomes) ==
  LET m == MergeChecks(outcomes, [ret |-> type_diagnostic, issues |-> FALSE])
  IN DictSet(m.ret, "valid", ~m.issues)

RunChecks(doc) == <<ControllerDirRunCheck(doc), SosreportRunCheck(doc)>>

\* the sosreports sub-records of a valid run, by report name
ParseSosreports(doc) ==
  LET reports == TheVal(doc.sos)
      LastNamed(n) == CHOOSE i \in DOMAIN reports :
                        /\ reports[i].name = n
                        /\ \A j \in DOMAIN reports : reports[j].name = n => j <= i
  IN [n \in {reports[i].name : i \in DOMAIN reports} |-> reports[LastNamed(n)].hostf]

EmptyDiagnostics ==
  [run |-> EmptyDict, result |-> EmptyDict,
   fio_extraction |-> EmptyDict, client_side |-> EmptyDict]

\* PbenchCombinedData.add_run_data; raises KeyError when controller_dir is
\* read from a document that has none
add_run_data_raises(doc) == ~doc.ctrl

add_run_data(doc) ==
  LET run_diagnostic == data_check(EmptyDict, RunChecks(doc))
  IN [run_id |-> doc.md5,
      sosreports |-> IF run_diagnostic["valid"] THEN ParseSosreports(doc) ELSE EmptyDict,
      iteration_name |-> None,
      disknames |-> None,
      hostnames |-> None,
      clientnames |-> None,
      diagnostics |-> [EmptyDiagnostics EXCEPT !.run = run_diagnostic]]

\* ------------------------------------------------------------------------
\* Result documents and the result checks
\* ------------------------------------------------------------------------
\* the fields BaseResultCheck looks for, in the order it looks for them
ChainFields ==
  <<"_source", "_source/run", "_source/run/id", "_source/run/name",
    "_source/iteration", "_source/iteration/name", "_source/sample",
    "_source/sample/name", "_source/sample/measurement_type",
    "_source/sample/measurement_title", "_source/sample/measurement_idx",
    "_source/sample/mean", "_source/sample/stddev", "_source/sample/stddevpct",
    "_source/sample/client_hostname", "_source/benchmark", "_source/benchmark/bs",
    "_source/benchmark/direct", "_source/benchmark/ioengine",
    "_source/benchmark/max_stddevpct", "_source/benchmark/primary_metric",
    "_source/benchmark/rw">>

\* the flag BaseResultCheck.diagnostic sets for each of them
ChainFlags ==
  <<"missing._source", "missing._source/run", "missing._source/run/id",
    "missing._source/run/name", "missing._source/iteration",
    "missing._source/iteration/name", "missing._source/sample",
    "missing._source/sample/name", "missing._source/sample/measurement_type",
    "missing._source/sample/measurement_title",
    "missing._source/sample/measurement_idx", "missing._source/sample/mean",
    "missing._source/sample/stddev", "missing._source/sample/stddevpct",
    "missing._source/sample/client_hostname", "missing._source/benchmark",
    "missing._source/benchmark/bs", "missing._source/benchmark/direct",
    "missing._source/benchmark/ioengine", "missing._source/benchmark/max_stddevpct",
    "missing._source/benchmark/primary_metric", "missing._source/benchmark/rw">>

\* BaseResultCheck._diagnostic_names
BaseResultNames ==
  <<"missing._source", "missing._source/run", "missing._source/run/id",
    "missing._source/run/name", "missing._source/iteration",
    "missing._source/iteration/name", "missing._source/sample",
    "missing._source/sample/name", "missing._source/sample/measurement_type",
    "missing._source/sample/measurement_title",
    "missing._source/sample/measurement_idx", "missing._source/sample/mean",
    "missing._source/sample/stddev", "missing._source/sample/stddevpct",
    "missing._source/sample/client_hostname",
    "missing._source/benchmark/bs", "missing._source/benchmark/direct",
    "missing._source/benchmark/ioengine", "missing._source/benchmark/max_stddevpct",
    "missing._source/benchmark/primary_metric", "missing._source/benchmark/rw">>

\* the sets of absent fields the result documents are drawn from
AbsentChoices ==
  {{}, {"_source"}, {"_source/iteration"},
   {"_source/sample/client_hostname"}, {"_source/benchmark"}}

\* a result document: its optional _id, the run id and the iteration name it
\* carries, its sample.client_hostname, and the fields it lacks.  The
\* documents fed to a collection are the complete ones, for every id, run and
\* iteration, and one document of each defective kind.
ResultDocs ==
  {d \in [id : {None} \cup {Some(x) : x \in ResultIds},
          run : RunIds,
          iter : IterNames,
          client_hostname : {"host", "all"},
          absent : AbsentChoices] :
     (d.absent # {} \/ d.client_hostname = "all") =>
        /\ d.id = Some("x1") /\ d.run = "r1" /\ d.iter = "i1"
        /\ d.absent # {} => d.client_hostname = "host"}

SeenResultNames == <<"missing._id", "duplicate_result_id">>

SeenResultCheck_forgetful(doc, seen) ==
  IF doc.id = None
    THEN [ret |-> DictSet(InitialReturn(SeenResultNames), "missing._id", TRUE),
          issues |-> TRUE, seen |-> seen]
    ELSE IF TheVal(doc.id) \in seen
      THEN [ret |-> DictSet(InitialReturn(SeenResultNames), "duplicate_result_id", TRUE),
            issues |-> TRUE, seen |-> seen]
      ELSE [ret |-> InitialReturn(SeenResultNames), issues |-> FALSE, seen |-> seen]

\* SeenResultCheck.diagnostic: the outcome and the seen set it leaves
SeenResultCheck(doc, seen) ==
  IF doc.id = None
    THEN [ret |-> DictSet(InitialReturn(SeenResultNames), "missing._id", TRUE),
          issues |-> TRUE, seen |-> seen]
    ELSE IF TheVal(doc.id) \in seen
      THEN [ret |-> DictSet(InitialReturn(SeenResultNames), "duplicate_result_id", TRUE),
            issues |-> TRUE, seen |-> seen]
      ELSE [ret |-> InitialReturn(SeenResultNames), issues |-> FALSE,
            seen |-> seen \cup {TheVal(doc.id)}]

\* the first field of the chain the document lacks, 0 when it has them all
FirstMissing(doc) ==
  IF \E i \in DOMAIN ChainFields : ChainFields[i] \in doc.absent
    THEN CHOOSE i \in DOMAIN ChainFields :
           /\ ChainFields[i] \in doc.absent
           /\ \A j \in 1..(i-1) : ChainFields[j] \notin doc.absent
    ELSE 0

BaseResultCheck_every_missing(doc) ==
  [ret |-> [n \in Range(BaseResultNames) \cup
                   {ChainFlags[i] : i \in {j \in DOMAIN ChainFields :
                                             ChainFields[j] \in doc.absent}} |->
              \E i \in DOMAIN ChainFields :
                 ChainFlags[i] = n /\ ChainFields[i] \in doc.absent],
   issues |-> doc.absent # {}]

\* BaseResultCheck.diagnostic: the if / elif chain
BaseResultCheck(doc) ==
  LET i == FirstMissing(doc)
  IN IF i # 0
       THEN [ret |-> DictSet(InitialReturn(BaseResultNames), ChainFlags[i], TRUE),
             issues |-> TRUE]
       ELSE [ret |-> InitialReturn(BaseResultNames), issues |-> FALSE]

RunNotInDataNames == <<"run_not_in_data">>

\* doc["_source"]["run"]["id"] raises KeyError on a document without it
RunNotInDataRaises(doc) ==
  doc.absent \cap {"_source", "_source/run", "_source/run/id"} # {}

RunNotInDataResultCheck(doc, valid_runs) ==
  IF doc.run \notin valid_runs
    THEN [ret |-> DictSet(InitialReturn(RunNotInDataNames), "run_not_in_data", TRUE),
          issues |-> TRUE]
    ELSE [ret |-> InitialReturn(RunNotInDataNames), issues |-> FALSE]

ClientHostAggregateNames == <<"client_hostname_all">>

\* doc["_source"]["sample"]["client_hostname"] raises KeyError likewise
ClientHostAggregateRaises(doc) ==
  doc.absent \cap {"_source", "_source/sample", "_source/sample/client_hostname"} # {}

ClientHostAggregateResultCheck(doc) ==
  IF doc.client_hostname = "all"
    THEN [ret |-> DictSet(InitialReturn(ClientHostAggregateNames), "client_hostname_all", TRUE),
          issues |-> TRUE]
    ELSE [ret |-> InitialReturn(ClientHostAggregateNames), issues |-> FALSE]

\* PbenchCombinedDataCollection.result_screening_check, when no check raises
result_screening_check(doc, seen, valid_runs) ==
  LET s == SeenResultCheck(doc, seen)
  IN data_check(EmptyDict,
       <<[ret |-> s.ret, issues |-> s.issues], BaseResultCheck(doc),
         RunNotInDataResultCheck(doc, valid_runs),
         ClientHostAggregateResultCheck(doc)>>)

result_screening_raises(doc) ==
  RunNotInDataRaises(doc) \/ ClientHostAggregateRaises(doc)

\* ------------------------------------------------------------------------
\* Enrichment checks
\* ------------------------------------------------------------------------
\* what the server answers for fio-result.txt: a failure status, a body that
\* is not JSON, or a JSON document with its disk and host names.  A url whose
\* check is valid is requested a second time, and second_json tells whether
\* the body of that second answer is JSON.
FetchOutcomes ==
  {[status |-> 404, json |-> FALSE, disknames |-> <<>>, hostnames |-> {},
    second_json |-> FALSE],
   [status |-> 200, json |-> FALSE, disknames |-> <<>>, hostnames |-> {},
    second_json |-> FALSE],
   [status |-> 200, json |-> TRUE, disknames |-> <<"sda">>, hostnames |-> {"h1"},
    second_json |-> TRUE],
   [status |-> 200, json |-> TRUE, disknames |-> <<"sda">>, hostnames |-> {"h1"},
    second_json |-> FALSE]}

FioExtractionNames == <<"session_response_unsuccessful", "response_invalid_json">>

FioExtractionCheck(response) ==
  IF response.status # 200
    THEN [ret |-> DictSet(InitialReturn(FioExtractionNames),
                          "session_response_unsuccessful", TRUE),
          issues |-> TRUE]
    ELSE IF ~response.json
      THEN [ret |-> DictSet(InitialReturn(FioExtractionNames),
                            "response_invalid_json", TRUE),
            issues |-> TRUE]
      ELSE [ret |-> InitialReturn(FioExtractionNames), issues |-> FALSE]

ClientNamesNames == <<"0_clients", "2_or_more_clients">>

ClientNamesCheck_accepts_many(client_names) ==
  IF client_names = {}
    THEN [ret |-> DictSet(InitialReturn(ClientNamesNames), "0_clients", TRUE),
          issues |-> TRUE]
    ELSE [ret |-> InitialReturn(ClientNamesNames), issues |-> FALSE]

\* ClientNamesCheck.diagnostic
ClientNamesCheck(client_names) ==
  IF client_names = {}
    THEN [ret |-> DictSet(InitialReturn(ClientNamesNames), "0_clients", TRUE),
          issues |-> TRUE]
    ELSE IF Cardinality(client_names) > 1
      THEN [ret |-> DictSet(InitialReturn(ClientNamesNames), "2_or_more_clients", TRUE),
            issues |-> TRUE]
      ELSE [ret |-> InitialReturn(ClientNamesNames), issues |-> FALSE]

\* ------------------------------------------------------------------------
\* State of one PbenchCombinedDataCollection, and of the indexing driver
\* ------------------------------------------------------------------------
VARIABLES
  run_id_to_data_valid,  \* run id -> combined record
  invalid,               \* "run", "result", "client_side" -> key -> record or document
  results_seen,          \* the result ids SeenResultCheck has met
  trackers,              \* stage -> counter name -> count
  result_temp_id,        \* next placeholder key of a rejected result without _id
  diskhost_map,          \* <<run id, iteration name>> -> <<disknames, hostnames>>
  clientnames_map,       \* run id -> client names
  raised,                \* the exception that ended the processing, or "none"
  calls,                 \* number of add_run / add_result calls made so far
  last,                  \* what the latest call did (history)
  history                \* what all the calls did so far (history)

collVars ==
  <<run_id_to_data_valid, invalid, results_seen, trackers, result_temp_id,
    diskhost_map, clientnames_map, raised, calls, last, history>>

\* the indexing driver
VARIABLES
  phase,             \* "CONFIG", "COLLECTING", "PROCESSING", "INDEXING_ONE", "DONE", "ABORTED"
  options,           \* the command line options
  status,            \* the exit status, once the run has ended
  handlers,          \* signal -> "SIG_IGN" or "handler"
  tarballs,          \* number of candidate tar balls; they are 1..tarballs
  indexed_before,    \* candidates a previous run marked as indexed
  current,           \* the candidate the loop is at
  sigquit_interrupt, \* the flag the SIGQUIT handler sets
  completed,         \* candidates indexed with success
  quarantined,       \* candidates moved to the quarantine directory
  errors,            \* number of candidates whose indexing failed
  reported,          \* whether a status report was emitted
  trail              \* what happened so far (history)

drvVars ==
  <<phase, options, status, handlers, tarballs, indexed_before, current,
    sigquit_interrupt, completed, quarantined, errors, reported, trail>>

\* one partition worker: merge_run_result_index, merge_run_result_mp or
\* merge_non_serializable
VARIABLES
  entry,          \* the function that processes the partition
  ppc,            \* "idle", "enter", "runs", "results", "done", "raised"
  run_docs,       \* the run documents not yet read from the run index
  result_docs,    \* the result documents not yet read from the result index
  record_limit,   \* the record_limit argument
  fed             \* the calls made on the collection, in order (history)

partVars == <<entry, ppc, run_docs, result_docs, record_limit, fed>>

\* the worker pool of merge_sos_and_perf_parallel.main
VARIABLES
  pool            \* the pool, its workers and what starmap gives back

poolVars == <<pool>>

\* a check applied to one document on its own
VARIABLES
  check_input,    \* the check and the document it is given
  check_output    \* what the check left behind, once it has run

chkVars == <<check_input, check_output>>

\* the REST resources: the request being served, its response, and the pages
\* a client following next_url has been given so far
VARIABLES
  api_request,    \* the resource asked for and its parameters
  api_response,   \* the response, once the resource has answered
  api_pages       \* the items of every page returned since the first request

apiVars == <<api_request, api_response, api_pages>>

vars == <<collVars, drvVars, partVars, poolVars, chkVars, apiVars>>

\* what the driver's steps leave alone, and what the collection's calls do
nonDrvVars == <<collVars, partVars, poolVars, chkVars, apiVars>>
nonCollVars == <<drvVars, poolVars, chkVars, apiVars>>

Stages == {"run", "result", "fio_extraction", "client_side"}

\* the names of the checks of each stage, in the order of diagnostic_checks
StageNames(type) ==
  CASE type = "run" -> ControllerDirNames \o SosreportNames
    [] type = "result" -> SeenResultNames \o BaseResultNames
                            \o RunNotInDataNames \o ClientHostAggregateNames
    [] type = "fio_extraction" -> FioExtractionNames
    [] type = "client_side" -> ClientNamesNames

\* PbenchCombinedDataCollection.trackers_initialization
trackers_initialization ==
  [type \in Stages |->
     [n \in Range(StageNames(type)) \cup {"valid", "total_records"} |-> 0]]

\* the keys of a diagnostic dict in the order they were inserted
DiagnosticOrder(type, diag) ==
  LET declared == IF type = "result"
        THEN SeenResultNames \o BaseResultNames
               \o (IF "missing._source/benchmark" \in DOMAIN diag
                     THEN <<"missing._source/benchmark">> ELSE <<>>)
               \o RunNotInDataNames \o ClientHostAggregateNames
        ELSE StageNames(type)
  IN SelectSeq(declared \o <<"valid">>, LAMBDA n : n \in DOMAIN diag)

\* the loop of update_diagnostic_trackers: one increment per true flag, in
\* order, until a flag has no counter (KeyError)
RECURSIVE CountFlags(_, _, _)
CountFlags(counters, diag, order) ==
  IF order = <<>> THEN [counters |-> counters, raises |-> FALSE]
  ELSE IF diag[Head(order)] = TRUE
    THEN IF Head(order) \in DOMAIN counters
      THEN CountFlags([counters EXCEPT ![Head(order)] = @ + 1], diag, Tail(order))
      ELSE [counters |-> counters, raises |-> TRUE]
    ELSE CountFlags(counters, diag, Tail(order))

\* PbenchCombinedDataCollection.update_diagnostic_trackers
update_diagnostic_trackers(tr, diag, type) ==
  LET c == CountFlags([tr[type] EXCEPT !["total_records"] = @ + 1], diag,
                      DiagnosticOrder(type, diag))
  IN [trackers |-> [tr EXCEPT ![type] = c.counters], raises |-> c.raises]

\* ------------------------------------------------------------------------
\* Operations of a combined record
\* ------------------------------------------------------------------------
add_result_data_keeps_first(rec, doc, result_diagnostic) ==
  [rec EXCEPT !.diagnostics.result = result_diagnostic,
              !.iteration_name = IF @ = None THEN Some(doc.iter) ELSE @]

\* PbenchCombinedData.add_result_data (the fields the model keeps): every
\* result field is written by the same unconditional update, and the
\* iteration name stands for them
add_result_data(rec, doc, result_diagnostic) ==
  [rec EXCEPT !.diagnostics.result = result_diagnostic,
              !.iteration_name = Some(doc.iter)]

\* A string is a sequence of pieces: "," and " " are those characters, any
\* other piece is a run of characters free of commas and white space.
\* The index of the first occurrence of sep in s at or after i, 0 if none
RECURSIVE find(_, _, _)
find(s, sep, i) ==
  IF i + Len(sep) - 1 > Len(s) THEN 0
  ELSE IF SubSeq(s, i, i + Len(sep) - 1) = sep THEN i
  ELSE find(s, sep, i + 1)

\* str.split(sep)
RECURSIVE split(_, _)
split(s, sep) ==
  LET i == find(s, sep, 1)
  IN IF i = 0 THEN <<s>>
     ELSE <<SubSeq(s, 1, i - 1)>> \o split(SubSeq(s, i + Len(sep), Len(s)), sep)

\* str.strip()
RECURSIVE strip(_)
strip(s) ==
  IF s # <<>> /\ Head(s) = " " THEN strip(Tail(s))
  ELSE IF s # <<>> /\ s[Len(s)] = " " THEN strip(SubSeq(s, 1, Len(s) - 1))
  ELSE s

\* sep.join(items)
RECURSIVE join(_, _)
join(sep, items) ==
  IF items = <<>> THEN <<>>
  ELSE IF Len(items) = 1 THEN items[1]
  ELSE items[1] \o sep \o join(sep, Tail(items))

\* the orders in which the elements of a set can be iterated
Orders(S) ==
  {o \in [1..Cardinality(S) -> S] : \A i, j \in 1..Cardinality(S) : o[i] = o[j] => i = j}

\* [word.strip() for word in sentence.split(",")]
Words(sentence) ==
  LET parts == split(sentence, <<",">>)
  IN [i \in DOMAIN parts |-> strip(parts[i])]

sentence_setify_keeps_duplicates(sentence) ==
  {join(<<",", " ">>, Words(sentence))}

\* PbenchCombinedData.sentence_setify: every string it can return, one for
\* each order in which the set of words can be iterated
sentence_setify(sentence) ==
  {join(<<",", " ">>, o) : o \in Orders(Range(Words(sentence)))}

\* the optional workload parameters and their defaults
OptionalDefaults ==
  [filename |-> <<"/tmp/fio">>, iodepth |-> <<"32">>, size |-> <<"4096M">>,
   numjobs |-> <<"1">>, ramp_time |-> <<"none">>, runtime |-> <<"none">>,
   sync |-> <<"none">>, time_based |-> <<"none">>]

\* the ones add_result_data passes through sentence_setify
Setified == {"filename", "size", "numjobs"}

\* dict.get(key, default)
get(d, key, default) == IF key \in DOMAIN d THEN d[key] ELSE default

add_result_data_optional_all_setified(benchmark) ==
  {[p \in DOMAIN OptionalDefaults |->
      CHOOSE v \in sentence_setify(get(benchmark, p, OptionalDefaults[p])) : TRUE]}

\* the end of PbenchCombinedData.add_result_data: the optional workload
\* parameters it stores under benchmark.<name>, in every way it can
add_result_data_optional(benchmark) ==
  {[p \in DOMAIN OptionalDefaults |->
      CASE p = "filename" -> f
        [] p = "size" -> z
        [] p = "numjobs" -> n
        [] OTHER -> get(benchmark, p, OptionalDefaults[p])] :
     f \in sentence_setify(get(benchmark, "filename", OptionalDefaults["filename"])),
     z \in sentence_setify(get(benchmark, "size", OptionalDefaults["size"])),
     n \in sentence_setify(get(benchmark, "numjobs", OptionalDefaults["numjobs"]))}

\* PbenchCombinedData.extract_fio_result: the check fetches the url, and a
\* valid check is followed by a second fetch of the same url, whose body is
\* parsed unguarded (response.json() raises ValueError on a body that is not
\* JSON)
extract_fio_result(rec, response) ==
  LET diag == data_check(rec.diagnostics.fio_extraction, <<FioExtractionCheck(response)>>)
  IN [rec |-> [rec EXCEPT !.diagnostics.fio_extraction = diag],
      names |-> IF diag["valid"] # TRUE
                  THEN <<<<>>, {}>>
                  ELSE <<response.disknames, response.hostnames>>,
      gets |-> IF diag["valid"] # TRUE THEN 1 ELSE 2,
      raises |-> diag["valid"] = TRUE /\ ~response.second_json]

\* the key of diskhost_map: run id and iteration name
DiskhostKey(rec) == <<rec.run_id, TheVal(rec.iteration_name)>>

add_host_and_disk_names_nocache(rec, map, response) ==
  LET key == DiskhostKey(rec)
      x == extract_fio_result(rec, response)
  IN [rec |-> [x.rec EXCEPT !.disknames = Some(x.names[1]),
                            !.hostnames = Some(x.names[2])],
      map |-> DictSet(map, key, x.names),
      gets |-> x.gets, fetches |-> 1, raises |-> x.raises]

\* PbenchCombinedData.add_host_and_disk_names; when extract_fio_result
\* raises, the record keeps the diagnostic the check gave it and nothing is
\* cached
add_host_and_disk_names(rec, map, response) ==
  LET key == DiskhostKey(rec)
      miss == key \notin DOMAIN map
      x == extract_fio_result(rec, response)
      map1 == IF miss THEN DictSet(map, key, x.names) ELSE map
      rec1 == IF miss THEN x.rec ELSE rec
  IN IF miss /\ x.raises
       THEN [rec |-> x.rec, map |-> map, gets |-> x.gets, fetches |-> 1,
             raises |-> TRUE]
       ELSE [rec |-> [rec1 EXCEPT !.disknames = Some(map1[key][1]),
                                  !.hostnames = Some(map1[key][2])],
             map |-> map1,
             gets |-> IF miss THEN x.gets ELSE 0,
             fetches |-> IF miss THEN 1 ELSE 0,
             raises |-> FALSE]

add_client_names_nocache(rec, map, found) ==
  LET key == rec.run_id
      diag == data_check(rec.diagnostics.client_side, <<ClientNamesCheck(found)>>)
      rec1 == [rec EXCEPT !.diagnostics.client_side = diag]
  IN [rec |-> IF diag["valid"] = TRUE
                THEN [rec1 EXCEPT !.clientnames = Some(found)] ELSE rec1,
      map |-> DictSet(map, key, found),
      queries |-> 1]

\* PbenchCombinedData.add_client_names; found is what extract_clients
\* returns when it is called
add_client_names(rec, map, found) ==
  LET key == rec.run_id
      miss == key \notin DOMAIN map
      map1 == IF miss THEN DictSet(map, key, found) ELSE map
      client_names == map1[key]
      diag == data_check(rec.diagnostics.client_side, <<ClientNamesCheck(client_names)>>)
      rec1 == [rec EXCEPT !.diagnostics.client_side = diag]
  IN [rec |-> IF diag["valid"] = TRUE
                THEN [rec1 EXCEPT !.clientnames = Some(client_names)] ELSE rec1,
      map |-> map1,
      queries |-> IF miss THEN 1 ELSE 0]

\* ------------------------------------------------------------------------
\* Keys of the invalid-result bucket
\* ------------------------------------------------------------------------
\* a key that is the value of a flag (a Python bool)
FlagKey(b) == <<"bool", b>>
\* a key that is a result id
IdKey(id) == <<"id", id>>
\* "missing_so_temo_id_" + str(n)
TempKey(n) == <<"missing_so_temo_id_", n>>

\* the key add_result files a rejected document under
InvalidResultKey(doc, result_diagnostic, temp_id) ==
  IF result_diagnostic["missing._id"] = FALSE
    THEN FlagKey(result_diagnostic["missing._id"])
    ELSE TempKey(temp_id)

\* ------------------------------------------------------------------------
\* History of the calls, kept to state the properties
\* ------------------------------------------------------------------------
NoHistory ==
  [streamIds |-> {},      \* the _id of every result document met so far
   orphans |-> {},        \* result documents checked against a run id outside the valid map
   rejected |-> {},       \* result documents the result stage rejected
   enriched |-> {},       \* diskhost keys a valid result has already asked for
   resolved |-> {},       \* run ids a valid result has already asked client names for
   fetches |-> EmptyDict, \* diskhost key -> number of extract_fio_result calls
   gets |-> EmptyDict,    \* diskhost key -> number of GET requests
   queries |-> EmptyDict, \* run id -> number of extract_clients calls
   firstPair |-> EmptyDict,   \* diskhost key -> the pair the first result got
   firstClient |-> EmptyDict, \* run id -> names and diagnostic of the first resolution
   entered |-> [type \in Stages |-> 0], \* stage -> documents its checks were run on
   fired |-> EmptyDict]       \* <<stage, flag>> -> documents a check set the flag on

NoLast ==
  [op |-> "none", run_doc |-> None, result_doc |-> None, raised |-> FALSE,
   dup |-> FALSE, idBefore |-> FALSE, valid |-> FALSE,
   keyBefore |-> FALSE, gets |-> 0, fetches |-> 0, runBefore |-> FALSE,
   queries |-> 0, fioValid |-> FALSE, clientValid |-> FALSE, prevResultValid |-> 0,
   response |-> None]

Count(f, k) == IF k \in DOMAIN f THEN f[k] ELSE 0

\* the flags a check outcome has set
TrueFlags(ret) == {n \in DOMAIN ret : n # "valid" /\ ret[n] = TRUE}

\* one more document of the stage, with the flags its checks set on it
Entered(h, type, flags) ==
  [h EXCEPT !.entered[type] = @ + 1,
            !.fired = [k \in (DOMAIN @) \cup {<<type, n>> : n \in flags} |->
                         Count(@, k) + (IF k[1] = type /\ k[2] \in flags THEN 1 ELSE 0)]]

\* the flags the result checks set on a document, up to the check that raises
ResultFlags(doc, seen) ==
  TrueFlags(SeenResultCheck(doc, seen).ret) \cup TrueFlags(BaseResultCheck(doc).ret)
  \cup (IF RunNotInDataRaises(doc) THEN {}
        ELSE TrueFlags(RunNotInDataResultCheck(doc, DOMAIN run_id_to_data_valid).ret)
             \cup (IF ClientHostAggregateRaises(doc) THEN {}
                   ELSE TrueFlags(ClientHostAggregateResultCheck(doc).ret)))

\* ------------------------------------------------------------------------
\* PbenchCombinedDataCollection
\* ------------------------------------------------------------------------
CollInit ==
  /\ run_id_to_data_valid = EmptyDict
  /\ invalid = [run |-> EmptyDict, result |-> EmptyDict, client_side |-> EmptyDict]
  /\ results_seen = {}
  /\ trackers = trackers_initialization
  /\ result_temp_id = 0
  /\ diskhost_map = EmptyDict
  /\ clientnames_map = EmptyDict
  /\ raised = "none"
  /\ calls = 0
  /\ last = NoLast
  /\ history = NoHistory

\* PbenchCombinedDataCollection.add_run
add_run(doc) ==
  /\ raised = "none"
  /\ calls' = calls + 1
  /\ IF add_run_data_raises(doc)
       THEN /\ raised' = "KeyError"
            /\ last' = [NoLast EXCEPT !.op = "add_run", !.run_doc = Some(doc),
                                      !.raised = TRUE]
            /\ UNCHANGED <<run_id_to_data_valid, invalid, trackers>>
       ELSE \E new_run \in {add_run_data(doc)} :
            \E u \in {update_diagnostic_trackers(trackers, new_run.diagnostics.run, "run")} :
            LET run_id == new_run.run_id
            IN /\ trackers' = u.trackers
               /\ raised' = IF u.raises THEN "KeyError" ELSE "none"
               /\ IF new_run.diagnostics.run["valid"] = TRUE
                    THEN /\ run_id_to_data_valid' =
                              DictSet(run_id_to_data_valid, run_id, new_run)
                         /\ UNCHANGED invalid
                    ELSE /\ invalid' = [invalid EXCEPT !.run = DictSet(@, run_id, new_run)]
                         /\ UNCHANGED run_id_to_data_valid
               /\ last' = [NoLast EXCEPT !.op = "add_run", !.run_doc = Some(doc),
                                         !.valid = new_run.diagnostics.run["valid"]]
  /\ history' = Entered(history, "run",
                        TrueFlags(data_check(EmptyDict, RunChecks(doc))))
  /\ UNCHANGED <<results_seen, result_temp_id, diskhost_map, clientnames_map>>
  /\ UNCHANGED nonCollVars

\* what one add_result call does to the collection: doc is the result
\* document, response what the server answers for its fio-result.txt, found
\* what extract_clients finds for it
AddResultOutcome(doc, response, found) ==
  LET seen == SeenResultCheck(doc, results_seen)
      unchanged ==
        [valid_map |-> run_id_to_data_valid, invalid |-> invalid,
         results_seen |-> seen.seen, trackers |-> trackers,
         result_temp_id |-> result_temp_id, diskhost_map |-> diskhost_map,
         clientnames_map |-> clientnames_map, raises |-> TRUE, exc |-> "KeyError",
         evaluated |-> FALSE, valid |-> FALSE, gets |-> 0, fetches |-> 0, queries |-> 0,
         fio_valid |-> FALSE, client_valid |-> FALSE]
  IN IF result_screening_raises(doc) THEN
       [unchanged EXCEPT !.evaluated = ~RunNotInDataRaises(doc)]
     ELSE
       LET diag == result_screening_check(doc, results_seen, DOMAIN run_id_to_data_valid)
           u == update_diagnostic_trackers(trackers, diag, "result")
       IN IF u.raises THEN
            [unchanged EXCEPT !.trackers = u.trackers, !.evaluated = TRUE]
          ELSE IF diag["valid"] = TRUE
                  /\ add_host_and_disk_names(
                       add_result_data(run_id_to_data_valid[doc.run], doc, diag),
                       diskhost_map, response).raises THEN
            LET hd == add_host_and_disk_names(
                        add_result_data(run_id_to_data_valid[doc.run], doc, diag),
                        diskhost_map, response)
            IN [unchanged EXCEPT
                  !.valid_map = DictSet(run_id_to_data_valid, doc.run, hd.rec),
                  !.trackers = u.trackers,
                  !.exc = "ValueError",
                  !.evaluated = TRUE, !.valid = TRUE,
                  !.gets = hd.gets, !.fetches = hd.fetches]
          ELSE IF diag["valid"] = TRUE THEN
            LET associated_run == run_id_to_data_valid[doc.run]
                r1 == add_result_data(associated_run, doc, diag)
                hd == add_host_and_disk_names(r1, diskhost_map, response)
                u2 == update_diagnostic_trackers(u.trackers,
                        hd.rec.diagnostics.fio_extraction, "fio_extraction")
                cn == add_client_names(hd.rec, clientnames_map, found)
                u3 == update_diagnostic_trackers(u2.trackers,
                        cn.rec.diagnostics.client_side, "client_side")
            IN [unchanged EXCEPT
                  !.valid_map = DictSet(run_id_to_data_valid, doc.run, cn.rec),
                  !.trackers = u3.trackers,
                  !.diskhost_map = hd.map,
                  !.clientnames_map = cn.map,
                  !.raises = u2.raises \/ u3.raises,
                  !.evaluated = TRUE, !.valid = TRUE,
                  !.gets = hd.gets, !.fetches = hd.fetches, !.queries = cn.queries,
                  !.fio_valid = ("valid" \in DOMAIN cn.rec.diagnostics.fio_extraction
                                 /\ cn.rec.diagnostics.fio_extraction["valid"]),
                  !.client_valid = cn.rec.diagnostics.client_side["valid"]]
          ELSE
            LET stored == [doc |-> doc, diagnostics |-> [result |-> diag]]
                key == InvalidResultKey(doc, diag, result_temp_id)
            IN [unchanged EXCEPT
                  !.invalid = [invalid EXCEPT !.result = DictSet(@, key, stored)],
                  !.trackers = u.trackers,
                  !.result_temp_id = IF diag["missing._id"] = FALSE
                                       THEN result_temp_id ELSE result_temp_id + 1,
                  !.raises = FALSE, !.evaluated = TRUE]

\* PbenchCombinedDataCollection.add_result
add_result(doc, response, found) ==
  /\ raised = "none"
  /\ calls' = calls + 1
  /\ \E o \in {AddResultOutcome(doc, response, found)} :
     LET key == <<doc.run, doc.iter>>
         orphan == o.evaluated /\ ~o.raises /\ doc.run \notin DOMAIN run_id_to_data_valid
     IN /\ run_id_to_data_valid' = o.valid_map
        /\ invalid' = o.invalid
        /\ results_seen' = o.results_seen
        /\ trackers' = o.trackers
        /\ result_temp_id' = o.result_temp_id
        /\ diskhost_map' = o.diskhost_map
        /\ clientnames_map' = o.clientnames_map
        /\ raised' = IF o.raises THEN o.exc ELSE "none"
        /\ last' =
             [NoLast EXCEPT
                !.op = "add_result", !.result_doc = Some(doc), !.raised = o.raises,
                !.dup = SeenResultCheck(doc, results_seen).ret["duplicate_result_id"],
                !.idBefore = (doc.id # None /\ TheVal(doc.id) \in history.streamIds),
                !.valid = o.valid,
                !.keyBefore = (key \in history.enriched),
                !.gets = o.gets,
                !.fetches = o.fetches,
                !.fioValid = o.fio_valid,
                !.clientValid = o.client_valid,
                !.runBefore = (doc.run \in history.resolved),
                !.queries = o.queries,
                !.prevResultValid = trackers["result"]["valid"],
                !.response = IF o.fetches = 1 THEN Some(response) ELSE None]
        /\ history' =
             [Entered(
                IF o.valid /\ ~o.raises
                  THEN Entered(
                         IF o.fetches = 1
                           THEN Entered(history, "fio_extraction",
                                        TrueFlags(FioExtractionCheck(response).ret))
                           ELSE history,
                         "client_side",
                         TrueFlags(ClientNamesCheck(o.clientnames_map[doc.run]).ret))
                  ELSE IF o.fetches = 1
                    THEN Entered(history, "fio_extraction",
                                 TrueFlags(FioExtractionCheck(response).ret))
                    ELSE history,
                "result", ResultFlags(doc, results_seen))
              EXCEPT
                !.streamIds = @ \cup doc.id,
                !.orphans = IF orphan THEN @ \cup {doc} ELSE @,
                !.rejected = IF o.evaluated /\ ~o.valid /\ ~o.raises
                               THEN @ \cup {doc} ELSE @,
                !.enriched = IF o.valid /\ ~o.raises THEN @ \cup {key} ELSE @,
                !.resolved = IF o.valid /\ ~o.raises THEN @ \cup {doc.run} ELSE @,
                !.fetches = IF o.valid THEN DictSet(@, key, Count(@, key) + o.fetches) ELSE @,
                !.gets = IF o.valid THEN DictSet(@, key, Count(@, key) + o.gets) ELSE @,
                !.queries = IF o.valid
                              THEN DictSet(@, doc.run, Count(@, doc.run) + o.queries) ELSE @,
                !.firstPair = IF o.valid /\ ~o.raises /\ key \notin DOMAIN @
                                THEN DictSet(@, key,
                                       <<TheVal(o.valid_map[doc.run].disknames),
                                         TheVal(o.valid_map[doc.run].hostnames)>>)
                                ELSE @,
                !.firstClient = IF o.valid /\ ~o.raises /\ doc.run \notin DOMAIN @
                                  THEN DictSet(@, doc.run,
                                         [names |-> o.clientnames_map[doc.run],
                                          attached |-> o.valid_map[doc.run].clientnames,
                                          diag |-> o.valid_map[doc.run].diagnostics.client_side])
                                  ELSE @]
  /\ UNCHANGED nonCollVars

\* the server is asked for fio-result.txt, and the document store for the
\* clients, only by a result that passes the result checks
PassesScreening(doc) ==
  /\ ~result_screening_raises(doc)
  /\ result_screening_check(doc, results_seen, DOMAIN run_id_to_data_valid)["valid"]

NoResponse ==
  [status |-> 404, json |-> FALSE, disknames |-> <<>>, hostnames |-> {},
   second_json |-> FALSE]

\* any run document, in any order with the result documents
AnyRun ==
  /\ calls < MaxCalls
  /\ \E doc \in RunDocs : add_run(doc)
  /\ UNCHANGED partVars

\* any result document, with what the server and the document store answer
AnyResult ==
  /\ calls < MaxCalls
  /\ \E doc \in ResultDocs :
       \E asked \in {PassesScreening(doc)} :
       \E response \in IF asked THEN FetchOutcomes ELSE {NoResponse},
          found \in IF asked THEN ClientNameSets ELSE {{}} :
        add_result(doc, response, found)
  /\ UNCHANGED partVars

CollNext == AnyRun \/ AnyResult


\* ------------------------------------------------------------------------
\* Properties of the collection
\* ------------------------------------------------------------------------
LastResultDoc == TheVal(last.result_doc)
LastRunDoc == TheVal(last.run_doc)

\* C1: retroactive demotion.  After an add_result whose document passes the
\* result checks, whose enrichment is valid and whose client-name stage is
\* invalid, the run's record is out of the valid map, is in the client_side
\* invalid partition, and the result-stage "valid" counter is what it was
\* before the call.
C1_RetroactiveDemotion ==
  (last.op = "add_result" /\ last.valid /\ last.fioValid /\ ~last.clientValid) =>
     /\ LastResultDoc.run \notin DOMAIN run_id_to_data_valid
     /\ LastResultDoc.run \in DOMAIN invalid.client_side
     /\ trackers["result"]["valid"] = last.prevResultValid

\* C2: a run document without controller_dir.  add_run completes, the record
\* is in the run-invalid partition with missing_ctrl_dir set and no sosreport
\* parsed, and the run counters have counted it.
C2_MissingCtrlDirFiled ==
  (last.op = "add_run" /\ ~LastRunDoc.ctrl) =>
     /\ ~last.raised
     /\ LastRunDoc.md5 \in DOMAIN invalid.run
     /\ invalid.run[LastRunDoc.md5].diagnostics.run["missing_ctrl_dir"] = TRUE
     /\ invalid.run[LastRunDoc.md5].sosreports = EmptyDict
     /\ trackers["run"]["missing_ctrl_dir"] > 0

\* C3: a result document checked while its run id was outside the valid map
\* is, at any later moment, in the invalid-result partition with
\* run_not_in_data set; stated for the documents that share their _id with
\* no other such document.
C3_OrphansKept ==
  \A d \in history.orphans :
     (\A e \in history.orphans : e # d => e.id # d.id) =>
        \E k \in DOMAIN invalid.result :
           /\ invalid.result[k].doc = d
           /\ invalid.result[k].diagnostics.result["run_not_in_data"] = TRUE

\* C4: a document rejected by the result stage is filed under its own _id
\* when it has one, and under a placeholder key of its own otherwise.
C4_RejectedKeyedById ==
  \A d \in history.rejected :
     IF d.id # None
       THEN /\ IdKey(TheVal(d.id)) \in DOMAIN invalid.result
            /\ invalid.result[IdKey(TheVal(d.id))].doc.id = d.id
       ELSE \E n \in 0..(result_temp_id - 1) :
              /\ TempKey(n) \in DOMAIN invalid.result
              /\ invalid.result[TempKey(n)].doc = d

\* C5: a result document is flagged duplicate_result_id exactly when its _id
\* is the _id of a document met earlier by the same collection, whatever its
\* other fields, and no id met so far has left the seen set.
C5_DuplicateIffSeenBefore ==
  /\ last.op = "add_result" => (last.dup <=> last.idBefore)
  /\ history.streamIds \subseteq results_seen

C5_Witness ==
  /\ last.op = "add_result" /\ last.dup /\ last.idBefore
  /\ LastResultDoc.absent # {}

\* C6: a valid result for a run and iteration that an earlier valid result
\* already asked for fetches nothing and gets the pair the first one got;
\* extract_fio_result runs once per run and iteration.
C6_OneFetchPerRunIteration ==
  /\ \A key \in DOMAIN history.fetches : history.fetches[key] <= 1
  /\ (last.op = "add_result" /\ last.valid /\ last.keyBefore) =>
       LET rec == run_id_to_data_valid[LastResultDoc.run]
           key == <<LastResultDoc.run, LastResultDoc.iter>>
       IN /\ last.fetches = 0 /\ last.gets = 0
          /\ <<TheVal(rec.disknames), TheVal(rec.hostnames)>> = history.firstPair[key]

C6_Witness ==
  /\ last.op = "add_result" /\ last.valid /\ last.keyBefore
  /\ history.firstPair[<<LastResultDoc.run, LastResultDoc.iter>>] = <<<<"sda">>, {"h1"}>>

\* C7: a second client-name resolution for a run id makes no query and gives
\* the client names and the client_side diagnostic of the first; the document
\* store is queried once per run id.
C7_OneClientQueryPerRun ==
  /\ \A r \in DOMAIN history.queries : history.queries[r] <= 1
  /\ (last.op = "add_result" /\ last.valid /\ ~last.raised /\ last.runBefore) =>
       LET r == LastResultDoc.run
           rec == run_id_to_data_valid[r]
       IN /\ last.queries = 0
          /\ clientnames_map[r] = history.firstClient[r].names
          /\ rec.clientnames = history.firstClient[r].attached
          /\ rec.diagnostics.client_side = history.firstClient[r].diag

C7_Witness ==
  /\ last.op = "add_result" /\ last.valid /\ last.runBefore
  /\ history.firstClient[LastResultDoc.run].names = {"c1"}
  /\ history.queries[LastResultDoc.run] = 1

\* ------------------------------------------------------------------------
\* The indexing driver: pbench-index.py, and Index.collect_tb / process_tb
\* ------------------------------------------------------------------------
\* an exit status is an integer or the value of a member of Index.error_code
IntStatus(n) == <<"int", n>>
ErrorCode(name) == <<"error_code", name>>

Options ==
  [cfg_name : BOOLEAN, dump_index_patterns : BOOLEAN,
   dump_templates : BOOLEAN, re_index : BOOLEAN]

NoTrail ==
  [started |-> <<>>,       \* the candidates started, in order
   finished |-> {},        \* candidates whose indexing call returned
   interrupted |-> {},     \* candidates whose indexing call SIGINT unwound
   quitAt |-> None,        \* the candidate in flight when SIGQUIT first arrived
   intAfterQuit |-> FALSE, \* a SIGINT unwound a call after that
   termAt |-> None,        \* the phase in which SIGTERM arrived
   startedAtTerm |-> 0,    \* number of candidates started when SIGTERM arrived
   cfg |-> None,           \* what main() met while it set the configuration up
   collected |-> FALSE,    \* collect_tb has been called
   returned |-> None,      \* the status and number of candidates it returned
   event |-> "none"]       \* the latest step

\* __main__: the SIGTERM handler is set and the other signals are ignored
\* before main() is called
DrvInit ==
  /\ phase = "CONFIG"
  /\ options \in Options
  /\ status = None
  /\ handlers = [SIGTERM |-> "handler", SIGINT |-> "SIG_IGN",
                 SIGQUIT |-> "SIG_IGN", SIGHUP |-> "SIG_IGN"]
  /\ tarballs = 0
  /\ indexed_before = {}
  /\ current = 0
  /\ sigquit_interrupt = FALSE
  /\ completed = {}
  /\ quarantined = {}
  /\ errors = 0
  /\ reported = FALSE
  /\ trail = NoTrail

ConfigExceptions ==
  {"none", "ConfigFileError", "ConfigParserError", "BadConfig", "JsonFileError"}

\* main(), from its start to the construction of the Index object: the status
\* it returns, or None when it goes on to collect_tb
main_setup_one_code(opts, exc, incoming_ok, qdir_set, qdir_ok) ==
  IF ~opts.cfg_name THEN Some(ErrorCode("CFG_ERROR"))
  ELSE IF exc # "none" THEN Some(ErrorCode("CFG_ERROR"))
  ELSE IF opts.dump_index_patterns THEN Some(IntStatus(0))
  ELSE IF opts.dump_templates THEN Some(IntStatus(0))
  ELSE IF ~incoming_ok \/ ~qdir_set \/ ~qdir_ok THEN Some(ErrorCode("BAD_CFG"))
  ELSE None

\* exc is what the try block raises when it is executed, qdir_set whether the
\* quarantine directory is configured, incoming_ok and qdir_ok whether the
\* two directories are valid
main_setup(opts, exc, incoming_ok, qdir_set, qdir_ok) ==
  IF ~opts.cfg_name THEN Some(ErrorCode("CFG_ERROR"))
  ELSE IF exc \in {"ConfigFileError", "ConfigParserError"} THEN Some(ErrorCode("CFG_ERROR"))
  ELSE IF exc = "BadConfig" THEN Some(ErrorCode("BAD_CFG"))
  ELSE IF exc = "JsonFileError" THEN Some(ErrorCode("MAPPING_ERROR"))
  ELSE IF opts.dump_index_patterns THEN Some(IntStatus(0))
  ELSE IF opts.dump_templates THEN Some(IntStatus(0))
  ELSE IF ~incoming_ok \/ ~qdir_set \/ ~qdir_ok THEN Some(ErrorCode("BAD_CFG"))
  ELSE None

Configure(exc, incoming_ok, qdir_set, qdir_ok) ==
  /\ phase = "CONFIG"
  /\ \E res \in {main_setup(options, exc, incoming_ok, qdir_set, qdir_ok)} :
       IF res # None
         THEN phase' = "DONE" /\ status' = res
         ELSE phase' = "COLLECTING" /\ UNCHANGED status
  /\ trail' = [trail EXCEPT
                  !.cfg = Some([exc |-> exc, incoming_ok |-> incoming_ok,
                                qdir_set |-> qdir_set, qdir_ok |-> qdir_ok]),
                  !.event = "Configure"]
  /\ UNCHANGED <<options, handlers, tarballs, indexed_before, current,
                 sigquit_interrupt, completed, quarantined, errors, reported>>
  /\ UNCHANGED nonDrvVars

\* what collect_tb may return as its status
CollectStatuses == {IntStatus(0), ErrorCode("GENERIC_ERROR")}

ProcessesTarballs_any_status(st, n) == n > 0

\* main(): whether process_tb is called on what collect_tb returned
ProcessesTarballs(st, n) == st = IntStatus(0) /\ n > 0

\* main(): collect_tb, then process_tb when there is something to process;
\* process_tb begins by setting its SIGQUIT and SIGHUP handlers
Collect(st, n, prev) ==
  /\ phase = "COLLECTING"
  /\ IF ProcessesTarballs(st, n)
       THEN /\ phase' = "PROCESSING"
            /\ tarballs' = n
            /\ indexed_before' = prev
            /\ current' = 1
            /\ handlers' = [handlers EXCEPT !.SIGQUIT = "handler", !.SIGHUP = "handler"]
            /\ UNCHANGED status
       ELSE /\ phase' = "DONE"
            /\ status' = Some(st)
            /\ UNCHANGED <<tarballs, indexed_before, current, handlers>>
  /\ trail' = [trail EXCEPT !.collected = TRUE,
                            !.returned = Some([status |-> st, tarballs |-> n]),
                            !.event = "Collect"]
  /\ UNCHANGED <<options, sigquit_interrupt, completed, quarantined, errors, reported>>
  /\ UNCHANGED nonDrvVars

LoopContinues_ignoring_flag(flag, cur, n) == cur <= n

\* process_tb, top of the loop: go on unless SIGQUIT set the flag or the
\* candidates are exhausted
LoopContinues(flag, cur, n) == ~flag /\ cur <= n

\* process_tb: start the indexing of the next candidate; the SIGINT handler
\* is set for the duration of the indexing call
StartOne ==
  /\ phase = "PROCESSING"
  /\ LoopContinues(sigquit_interrupt, current, tarballs)
  /\ phase' = "INDEXING_ONE"
  /\ handlers' = [handlers EXCEPT !.SIGINT = "handler"]
  /\ trail' = [trail EXCEPT !.started = Append(@, current), !.event = "StartOne"]
  /\ UNCHANGED <<options, status, tarballs, indexed_before, current,
                 sigquit_interrupt, completed, quarantined, errors, reported>>
  /\ UNCHANGED nonDrvVars

\* the status process_tb returns
process_tb_status_ok(errs) == IntStatus(0)

process_tb_status(errs) ==
  IF errs > 0 THEN ErrorCode("COMPLETED_WITH_ERRORS") ELSE IntStatus(0)

Finish_unless_stopped ==
  /\ phase = "PROCESSING"
  /\ ~LoopContinues(sigquit_interrupt, current, tarballs)
  /\ ~sigquit_interrupt
  /\ phase' = "DONE"
  /\ status' = Some(process_tb_status(errors))
  /\ trail' = [trail EXCEPT !.event = "Finish"]
  /\ UNCHANGED <<options, handlers, tarballs, indexed_before, current,
                 sigquit_interrupt, completed, quarantined, errors, reported>>
  /\ UNCHANGED nonDrvVars

\* process_tb: leave the loop and return
Finish ==
  /\ phase = "PROCESSING"
  /\ ~LoopContinues(sigquit_interrupt, current, tarballs)
  /\ phase' = "DONE"
  /\ status' = Some(process_tb_status(errors))
  /\ trail' = [trail EXCEPT !.event = "Finish"]
  /\ UNCHANGED <<options, handlers, tarballs, indexed_before, current,
                 sigquit_interrupt, completed, quarantined, errors, reported>>
  /\ UNCHANGED nonDrvVars

Quarantines_always(opts, bundle, prev) == TRUE

\* whether a candidate whose indexing failed is moved to quarantine
Quarantines(opts, bundle, prev) == ~(opts.re_index /\ bundle \in prev)

IndexOne_keeps_handler(ok) ==
  /\ phase = "INDEXING_ONE"
  /\ IF ok
       THEN /\ completed' = completed \cup {current}
            /\ UNCHANGED <<quarantined, errors>>
       ELSE /\ errors' = errors + 1
            /\ quarantined' = IF Quarantines(options, current, indexed_before)
                                THEN quarantined \cup {current} ELSE quarantined
            /\ UNCHANGED completed
  /\ current' = current + 1
  /\ phase' = "PROCESSING"
  /\ trail' = [trail EXCEPT !.finished = @ \cup {current}, !.event = "IndexOne"]
  /\ UNCHANGED <<options, status, handlers, tarballs, indexed_before,
                 sigquit_interrupt, reported>>
  /\ UNCHANGED nonDrvVars

\* process_tb: the indexing call of the current candidate returns; the
\* finally clause takes the SIGINT handler down
IndexOne(ok) ==
  /\ phase = "INDEXING_ONE"
  /\ IF ok
       THEN /\ completed' = completed \cup {current}
            /\ UNCHANGED <<quarantined, errors>>
       ELSE /\ errors' = errors + 1
            /\ quarantined' = IF Quarantines(options, current, indexed_before)
                                THEN quarantined \cup {current} ELSE quarantined
            /\ UNCHANGED completed
  /\ handlers' = [handlers EXCEPT !.SIGINT = "SIG_IGN"]
  /\ current' = current + 1
  /\ phase' = "PROCESSING"
  /\ trail' = [trail EXCEPT !.finished = @ \cup {current}, !.event = "IndexOne"]
  /\ UNCHANGED <<options, status, tarballs, indexed_before, sigquit_interrupt, reported>>
  /\ UNCHANGED nonDrvVars

Running == phase \notin {"DONE", "ABORTED"}

SigIntOutcome_escapes(st) ==
  [phase |-> "ABORTED", status |-> Some(ErrorCode("GENERIC_ERROR"))]

\* where the SigIntException ends: the try/except around the indexing call
\* catches it, and the loop goes on with the status untouched
SigIntOutcome(st) == [phase |-> "PROCESSING", status |-> st]

SigInt_retries ==
  /\ Running
  /\ IF handlers.SIGINT = "handler"
       THEN /\ phase' = SigIntOutcome(status).phase
            /\ status' = SigIntOutcome(status).status
            /\ handlers' = [handlers EXCEPT !.SIGINT = "SIG_IGN"]
            /\ trail' = [trail EXCEPT !.interrupted = @ \cup {current},
                                      !.intAfterQuit = (trail.quitAt # None),
                                      !.event = "SIGINT"]
       ELSE /\ trail' = [trail EXCEPT !.event = "SIGINT ignored"]
            /\ UNCHANGED <<phase, status, handlers>>
  /\ UNCHANGED <<options, tarballs, indexed_before, current, sigquit_interrupt,
                 completed, quarantined, errors, reported>>
  /\ UNCHANGED nonDrvVars

\* SIGINT: ignored unless an indexing call is in flight; then the call is
\* unwound and the finally clause takes the handler down
SigInt ==
  /\ Running
  /\ IF handlers.SIGINT = "handler"
       THEN /\ phase' = SigIntOutcome(status).phase
            /\ status' = SigIntOutcome(status).status
            /\ handlers' = [handlers EXCEPT !.SIGINT = "SIG_IGN"]
            /\ current' = current + 1
            /\ trail' = [trail EXCEPT !.interrupted = @ \cup {current},
                                      !.intAfterQuit = (trail.quitAt # None),
                                      !.event = "SIGINT"]
       ELSE /\ trail' = [trail EXCEPT !.event = "SIGINT ignored"]
            /\ UNCHANGED <<phase, status, handlers, current>>
  /\ UNCHANGED <<options, tarballs, indexed_before, sigquit_interrupt,
                 completed, quarantined, errors, reported>>
  /\ UNCHANGED nonDrvVars

\* SIGQUIT: the handler only sets the flag
SigQuit ==
  /\ Running
  /\ IF handlers.SIGQUIT = "handler"
       THEN /\ sigquit_interrupt' = TRUE
            /\ trail' = [trail EXCEPT
                           !.quitAt = IF @ = None /\ phase = "INDEXING_ONE"
                                        THEN Some(current) ELSE @,
                           !.event = "SIGQUIT"]
       ELSE /\ trail' = [trail EXCEPT !.event = "SIGQUIT ignored"]
            /\ UNCHANGED sigquit_interrupt
  /\ UNCHANGED <<phase, options, status, handlers, tarballs, indexed_before,
                 current, completed, quarantined, errors, reported>>
  /\ UNCHANGED nonDrvVars

SigHup_reevaluates ==
  /\ Running
  /\ IF handlers.SIGHUP = "handler"
       THEN /\ reported' = TRUE
            /\ tarballs' = current
            /\ trail' = [trail EXCEPT !.event = "SIGHUP"]
       ELSE /\ UNCHANGED <<reported, tarballs>>
            /\ trail' = [trail EXCEPT !.event = "SIGHUP ignored"]
  /\ UNCHANGED <<phase, options, status, handlers, indexed_before,
                 current, sigquit_interrupt, completed, quarantined, errors>>
  /\ UNCHANGED nonDrvVars

\* SIGHUP: the handler only reports
SigHup ==
  /\ Running
  /\ IF handlers.SIGHUP = "handler"
       THEN reported' = TRUE /\ trail' = [trail EXCEPT !.event = "SIGHUP"]
       ELSE UNCHANGED reported /\ trail' = [trail EXCEPT !.event = "SIGHUP ignored"]
  /\ UNCHANGED <<phase, options, status, handlers, tarballs, indexed_before,
                 current, sigquit_interrupt, completed, quarantined, errors>>
  /\ UNCHANGED nonDrvVars

ExitStatusOnSigTerm_as_returned == IntStatus(0)

\* __main__: the status set when SigTermException escapes main()
ExitStatusOnSigTerm == IntStatus(1)

\* SIGTERM: sigterm_handler raises SigTermException, nothing on the way
\* catches it, and __main__ turns it into the exit status
SigTerm ==
  /\ Running
  /\ handlers.SIGTERM = "handler"
  /\ phase' = "ABORTED"
  /\ status' = Some(ExitStatusOnSigTerm)
  /\ trail' = [trail EXCEPT !.termAt = Some(phase),
                            !.startedAtTerm = Len(trail.started),
                            !.event = "SIGTERM"]
  /\ UNCHANGED <<options, handlers, tarballs, indexed_before, current,
                 sigquit_interrupt, completed, quarantined, errors, reported>>
  /\ UNCHANGED nonDrvVars

DrvNext ==
  \/ \E exc \in ConfigExceptions, incoming_ok, qdir_set, qdir_ok \in BOOLEAN :
       Configure(exc, incoming_ok, qdir_set, qdir_ok)
  \/ \E st \in CollectStatuses, n \in 0..MaxBundles :
       \E prev \in IF options.re_index THEN SUBSET (1..n) ELSE {{}} :
         Collect(st, n, prev)
  \/ StartOne
  \/ Finish
  \/ \E ok \in BOOLEAN : IndexOne(ok)
  \/ SigInt
  \/ SigQuit
  \/ SigHup
  \/ SigTerm

\* ------------------------------------------------------------------------
\* Specifications
\* ------------------------------------------------------------------------
\* a driver that has not been started
DrvIdle ==
  /\ phase = "DONE"
  /\ options = [cfg_name |-> FALSE, dump_index_patterns |-> FALSE,
                dump_templates |-> FALSE, re_index |-> FALSE]
  /\ status = None
  /\ handlers = [SIGTERM |-> "SIG_IGN", SIGINT |-> "SIG_IGN",
                 SIGQUIT |-> "SIG_IGN", SIGHUP |-> "SIG_IGN"]
  /\ tarballs = 0
  /\ indexed_before = {}
  /\ current = 0
  /\ sigquit_interrupt = FALSE
  /\ completed = {}
  /\ quarantined = {}
  /\ errors = 0
  /\ reported = FALSE
  /\ trail = NoTrail

\* no partition worker, no pool and no lone check
PartIdle ==
  /\ entry = "none" /\ ppc = "idle"
  /\ run_docs = <<>> /\ result_docs = <<>>
  /\ record_limit = -1 /\ fed = <<>>

PoolIdle == pool = [state |-> "idle"]

ChkIdle == check_input = None /\ check_output = None

\* no request to a REST resource
ApiIdle == api_request = None /\ api_response = None /\ api_pages = <<>>

\* a fresh collection while no indexing run is in progress
Init == CollInit /\ DrvIdle /\ PartIdle /\ PoolIdle /\ ChkIdle /\ ApiIdle

\* one collection, fed run and result documents in any order
Spec == Init /\ [][CollNext]_vars

\* the driver about to call main, its collection untouched
DriverInit == DrvInit /\ CollInit /\ PartIdle /\ PoolIdle /\ ChkIdle /\ ApiIdle

\* one run of the indexing driver under any sequence of signals
DriverSpec == DriverInit /\ [][DrvNext]_vars

\* the steps of the program itself: main runs on whenever no signal handler
\* is running, and every call it makes (collect_tb, an indexing call) returns
DrvProgress ==
  \/ \E exc \in ConfigExceptions, incoming_ok, qdir_set, qdir_ok \in BOOLEAN :
       Configure(exc, incoming_ok, qdir_set, qdir_ok)
  \/ \E st \in CollectStatuses, n \in 0..MaxBundles :
       \E prev \in IF options.re_index THEN SUBSET (1..n) ELSE {{}} :
         Collect(st, n, prev)
  \/ StartOne
  \/ Finish
  \/ \E ok \in BOOLEAN : IndexOne(ok)

\* the same run, in which the program is not held up for ever
DriverFairSpec == DriverInit /\ [][DrvNext]_vars /\ WF_vars(DrvProgress)

\* ------------------------------------------------------------------------
\* A check applied to one document on its own
\* ------------------------------------------------------------------------
\* the lists of sosreports of at most MaxSos entries
RECURSIVE SosLists(_)
SosLists(n) ==
  IF n = 0 THEN {<<>>}
  ELSE LET shorter == SosLists(n - 1)
       IN shorter \cup {Append(l, e) : l \in {m \in shorter : Len(m) = n - 1},
                                       e \in {SosA, SosB, SosC}}

\* run documents with and without sosreports, of every length up to MaxSos
CheckRunDocs ==
  [md5 : {"r1"}, ctrl : BOOLEAN,
   sos : {None} \cup {Some(l) : l \in SosLists(MaxSos)}]

\* the strings of at most n pieces over , and blank and two words
RECURSIVE Sentences(_)
Sentences(n) ==
  IF n = 0 THEN {<<>>}
  ELSE LET shorter == Sentences(n - 1)
       IN shorter \cup {Append(l, c) : l \in {m \in shorter : Len(m) = n - 1},
                                       c \in {"a", "b", ",", " "}}

\* the benchmark sections of the result documents: each optional parameter
\* absent or present, a present one with repeated or unspaced items
BenchmarkChoices ==
  {[p \in D |-> IF p = "filename" THEN f ELSE IF p = "size" THEN z
                 ELSE <<"a", ",", " ", "a">>] :
     D \in SUBSET (DOMAIN OptionalDefaults),
     f \in {<<"a", ",", " ", "a">>, <<"b", ",", "a">>},
     z \in {<<"a", ",", " ", "a">>, <<"b", ",", "a">>}}

\* a complete result document of run r1, and the record of that run
CompleteResult ==
  [id |-> Some("x1"), run |-> "r1", iter |-> "i1", client_hostname |-> "host",
   absent |-> {}]

ValidRunRecord == add_run_data([md5 |-> "r1", ctrl |-> TRUE, sos |-> Some(<<SosA, SosB>>)])

\* result documents lacking none, one or two of the fields of the chain
CheckResultDocs ==
  [id : {None, Some("x1")}, run : {"r1"}, iter : {"i1"},
   client_hostname : {"host", "all"},
   absent : {{}} \cup {{f, g} : f, g \in Range(ChainFields)}]

\* the checks of each stage, in the order of diagnostic_checks
StageChecks(type) ==
  CASE type = "run" -> <<"ControllerDirRunCheck", "SosreportRunCheck">>
    [] type = "result" -> <<"SeenResultCheck", "BaseResultCheck",
                            "RunNotInDataResultCheck", "ClientHostAggregateResultCheck">>
    [] type = "fio_extraction" -> <<"FioExtractionCheck">>
    [] type = "client_side" -> <<"ClientNamesCheck">>

\* what a record holds for a stage before the stage is run on it: nothing,
\* or what an earlier run of the stage left
PriorDiagnostics(type) ==
  {EmptyDict} \cup
  (IF type = "fio_extraction"
     THEN {data_check(EmptyDict, <<FioExtractionCheck(r)>>) : r \in FetchOutcomes}
     ELSE IF type = "client_side"
       THEN {data_check(EmptyDict, <<ClientNamesCheck(c)>>) : c \in ClientNameSets}
       ELSE {})

\* what data_check is handed, by stage: a run document, the answer of the
\* server for the url, the client names
DataCheckInputs ==
  {[check |-> "data_check", type |-> "run", doc |-> d, prior |-> EmptyDict] :
     d \in CheckRunDocs}
  \cup {[check |-> "data_check", type |-> "fio_extraction", url |-> r, prior |-> q] :
          r \in FetchOutcomes, q \in PriorDiagnostics("fio_extraction")}
  \cup {[check |-> "data_check", type |-> "client_side", client_names |-> c,
         prior |-> q] :
          c \in ClientNameSets, q \in PriorDiagnostics("client_side")}

\* the outcomes of the checks of a stage on what it is handed
StageOutcomes(input) ==
  CASE input.type = "run" -> RunChecks(input.doc)
    [] input.type = "fio_extraction" -> <<FioExtractionCheck(input.url)>>
    [] input.type = "client_side" -> <<ClientNamesCheck(input.client_names)>>

\* the result checks that return before one of them raises
ResultChecksRun(doc) ==
  IF RunNotInDataRaises(doc) THEN SubSeq(StageChecks("result"), 1, 2)
  ELSE IF ClientHostAggregateRaises(doc) THEN SubSeq(StageChecks("result"), 1, 3)
  ELSE StageChecks("result")

CheckInit ==
  /\ check_input \in
       {Some([check |-> "SosreportRunCheck", doc |-> d]) : d \in CheckRunDocs}
       \cup {Some([check |-> "BaseResultCheck", doc |-> d]) : d \in CheckResultDocs}
       \cup {Some(i) : i \in DataCheckInputs}
       \cup {Some([check |-> "result_screening_check", type |-> "result", doc |-> d,
                   seen |-> n, valid_runs |-> v]) :
                d \in CheckResultDocs, n \in {{}, {"x1"}}, v \in {{}, {"r1"}}}
       \cup {Some([check |-> "sentence_setify", sentence |-> w]) :
                w \in Sentences(MaxSentence)}
       \cup {Some([check |-> "add_result_data", doc |-> CompleteResult,
                   benchmark |-> b]) : b \in BenchmarkChoices}
  /\ check_output = None

\* sentence_setify(sentence), in whichever order the set is iterated
ApplySentenceSetify ==
  /\ check_input # None /\ check_output = None
  /\ TheVal(check_input).check = "sentence_setify"
  /\ \E out \in sentence_setify(TheVal(check_input).sentence) :
       check_output' = Some([out |-> out])
  /\ UNCHANGED <<check_input, collVars, drvVars, partVars, poolVars, apiVars>>

\* add_result_data(doc, result_diagnostic) on the record of the run
ApplyAddResultData ==
  /\ check_input # None /\ check_output = None
  /\ TheVal(check_input).check = "add_result_data"
  /\ \E data \in add_result_data_optional(TheVal(check_input).benchmark) :
       check_output' =
         Some([rec |-> add_result_data(ValidRunRecord, TheVal(check_input).doc,
                          result_screening_check(TheVal(check_input).doc, {}, {"r1"})),
               data |-> data])
  /\ UNCHANGED <<check_input, collVars, drvVars, partVars, poolVars, apiVars>>

\* check.diagnostic(doc), then check.get_vals()
ApplySosreportRunCheck ==
  /\ check_input # None /\ check_output = None
  /\ TheVal(check_input).check = "SosreportRunCheck"
  /\ check_output' = Some(SosreportRunCheck(TheVal(check_input).doc))
  /\ UNCHANGED <<check_input, collVars, drvVars, partVars, poolVars, apiVars>>

\* BaseResultCheck.diagnostic(doc), then get_vals()
ApplyBaseResultCheck ==
  /\ check_input # None /\ check_output = None
  /\ TheVal(check_input).check = "BaseResultCheck"
  /\ check_output' = Some(BaseResultCheck(TheVal(check_input).doc))
  /\ UNCHANGED <<check_input, collVars, drvVars, partVars, poolVars, apiVars>>

\* PbenchCombinedData.data_check(doc, type) on a record
ApplyDataCheck ==
  /\ check_input # None /\ check_output = None
  /\ TheVal(check_input).check = "data_check"
  /\ check_output' =
       Some([raises |-> FALSE,
             ret |-> data_check(TheVal(check_input).prior,
                                StageOutcomes(TheVal(check_input))),
             ran |-> StageChecks(TheVal(check_input).type)])
  /\ UNCHANGED <<check_input, collVars, drvVars, partVars, poolVars, apiVars>>

\* PbenchCombinedDataCollection.result_screening_check(doc)
ApplyResultScreeningCheck ==
  /\ check_input # None /\ check_output = None
  /\ TheVal(check_input).check = "result_screening_check"
  /\ check_output' =
       Some(IF result_screening_raises(TheVal(check_input).doc)
              THEN [raises |-> TRUE, ret |-> EmptyDict,
                    ran |-> ResultChecksRun(TheVal(check_input).doc)]
              ELSE [raises |-> FALSE,
                    ret |-> result_screening_check(TheVal(check_input).doc,
                              TheVal(check_input).seen, TheVal(check_input).valid_runs),
                    ran |-> ResultChecksRun(TheVal(check_input).doc)])
  /\ UNCHANGED <<check_input, collVars, drvVars, partVars, poolVars, apiVars>>

CheckNext ==
  \/ ApplySosreportRunCheck
  \/ ApplySentenceSetify
  \/ ApplyAddResultData
  \/ ApplyBaseResultCheck
  \/ ApplyDataCheck
  \/ ApplyResultScreeningCheck

CheckStart == CheckInit /\ CollInit /\ DrvIdle /\ PartIdle /\ PoolIdle /\ ApiIdle

\* one check, run once on one document
CheckSpec == CheckStart /\ [][CheckNext]_vars

\* the flags of a check outcome that are set
FiredFlags(o) == {n \in DOMAIN o.ret : o.ret[n] = TRUE}

\* C20: the sosreport check sets at most one of its three flags, the one of
\* the first condition that holds in the order missing, not two, different
\* hosts; a list whose length is not 2 gives non_2_sosreports alone, and the
\* branch that compares the host names is not entered.
C20_SosreportFirstCondition ==
  (check_output # None /\ TheVal(check_input).check = "SosreportRunCheck") =>
    LET doc == TheVal(check_input).doc
        o == TheVal(check_output)
        expected ==
          IF doc.sos = None THEN {"missing_sosreports"}
          ELSE IF Len(TheVal(doc.sos)) # 2 THEN {"non_2_sosreports"}
          ELSE IF TheVal(doc.sos)[1].hostf # TheVal(doc.sos)[2].hostf
            THEN {"sosreports_diff_hosts"}
          ELSE {}
    IN /\ DOMAIN o.ret = Range(SosreportNames)
       /\ Cardinality(FiredFlags(o)) <= 1
       /\ FiredFlags(o) = expected
       /\ o.issues = (expected # {})
       /\ (doc.sos # None /\ Len(TheVal(doc.sos)) # 2) => ~o.compared

C20_Witness ==
  /\ check_output # None
  /\ TheVal(check_input).check = "SosreportRunCheck"
  /\ TheVal(check_input).doc.sos = Some(<<SosA, SosC, SosB>>)
  /\ FiredFlags(TheVal(check_output)) = {"non_2_sosreports"}

\* the input and the outcome of the lone call, once it has been made
Applied(check) == check_output # None /\ TheVal(check_input).check = check
In == TheVal(check_input)
Out == TheVal(check_output)

\* C21: after add_result_data, each optional benchmark parameter absent from
\* the document holds its declared default in the combined record, and each
\* one present holds the document's value.
C21_DefaultSubstitution ==
  Applied("add_result_data") =>
    \A p \in DOMAIN OptionalDefaults :
      Out.data[p] = IF p \in DOMAIN In.benchmark THEN In.benchmark[p]
                    ELSE OptionalDefaults[p]

\* the items of a string between its commas, trimmed
ItemsOf(sentence) == {strip(w) : w \in Range(split(sentence, <<",">>))}

\* C21 (amended): an absent optional parameter holds its declared default; a
\* present iodepth, ramp_time, runtime, sync or time_based holds the
\* document's value; a present filename, size or numjobs holds the items of
\* the document's value, trimmed, each once, joined by ", ".
C21_DefaultSubstitutionAmended ==
  Applied("add_result_data") =>
    \A p \in DOMAIN OptionalDefaults :
      IF p \notin DOMAIN In.benchmark THEN Out.data[p] = OptionalDefaults[p]
      ELSE IF p \notin Setified THEN Out.data[p] = In.benchmark[p]
      ELSE LET held == split(Out.data[p], <<",", " ">>)
           IN /\ Range(held) = ItemsOf(In.benchmark[p])
              /\ Len(held) = Cardinality(ItemsOf(In.benchmark[p]))

C21_Witness ==
  /\ Applied("add_result_data")
  /\ DOMAIN In.benchmark = {"filename", "iodepth"}
  /\ In.benchmark["filename"] = <<"a", ",", " ", "a">>
  /\ Out.data["filename"] = <<"a">>
  /\ Out.data["iodepth"] = <<"a", ",", " ", "a">>
  /\ Out.data["size"] = <<"4096M">>
  /\ Out.rec.iteration_name = Some("i1")

\* C22: sentence_setify returns the distinct trimmed comma-separated items of
\* its input, each exactly once, joined by ", " in some order, and applying
\* it to its own output yields the same set of items.
C22_SentenceSetify ==
  Applied("sentence_setify") =>
    LET items == ItemsOf(In.sentence)
        joined == split(Out.out, <<",", " ">>)
    IN /\ Range(joined) = items
       /\ Len(joined) = Cardinality(items)
       /\ \A again \in sentence_setify(Out.out) : ItemsOf(again) = items

C22_Witness ==
  /\ Applied("sentence_setify")
  /\ In.sentence = <<"a", ",", "b", ",", "a">>
  /\ Out.out = <<"b", ",", " ", "a">>

\* the positions in the chain of the fields a document lacks
MissingOf(doc) == {i \in DOMAIN ChainFields : ChainFields[i] \in doc.absent}

\* C28: the base-result-shape check sets at most one missing-field flag per
\* document, the one of the first absent field in the declared chain order,
\* and reports the document valid if and only if every required field of
\* the chain is present.
C28_BaseResultFirstMissing ==
  Applied("BaseResultCheck") =>
    /\ Cardinality(FiredFlags(Out)) <= 1
    /\ MissingOf(In.doc) # {} =>
         \E i \in MissingOf(In.doc) :
           /\ \A j \in MissingOf(In.doc) : i <= j
           /\ FiredFlags(Out) = {ChainFlags[i]}
    /\ (~Out.issues) <=> (MissingOf(In.doc) = {})
    /\ MissingOf(In.doc) = {} => FiredFlags(Out) = {}

C28_Witness ==
  /\ Applied("BaseResultCheck")
  /\ In.doc.absent = {"_source/sample/mean", "_source/run/name"}
  /\ FiredFlags(Out) = {"missing._source/run/name"}
  /\ Out.issues

\* C29: for every document and every stage pipeline, the merged diagnostic
\* contains every flag of every check of the pipeline, the checks run in
\* their declared order, and valid is true if and only if no flag in the
\* merged diagnostic is true.
C29_PipelineMerge ==
  (Applied("data_check") \/ Applied("result_screening_check")) =>
    /\ ~Out.raises
    /\ Out.ran = StageChecks(In.type)
    /\ Range(StageNames(In.type)) \subseteq DOMAIN Out.ret
    /\ Out.ret["valid"] = (TrueFlags(Out.ret) = {})

\* ------------------------------------------------------------------------
\* The REST resources: datasets list and datasets mappings
\* ------------------------------------------------------------------------
\* a dataset is named by the rank of its name in the order of names
DatasetNames == 1..MaxDatasets

\* query.order_by(Dataset.name)
order_by_name(query) ==
  CHOOSE o \in [1..Cardinality(query) -> query] :
    \A i, j \in 1..Cardinality(query) : i < j => o[i] < o[j]

Digits == <<"0", "1", "2", "3", "4", "5", "6", "7", "8", "9">>

\* str(n) of a natural number, as urlencode writes it
RECURSIVE str(_)
str(n) ==
  IF n < 10 THEN <<Digits[n + 1]>> ELSE Append(str(n \div 10), Digits[(n % 10) + 1])

\* int(s) of a string of digits, as the INT parameter type reads it
RECURSIVE int(_)
int(s) ==
  LET d == CHOOSE k \in 0..9 : Digits[k + 1] = s[Len(s)]
  IN IF Len(s) = 1 THEN d ELSE 10 * int(SubSeq(s, 1, Len(s) - 1)) + d

\* urlencode(json): each parameter with its value written out
urlencode(json) == [k \in DOMAIN json |-> str(json[k])]

\* the query parameters a request to that url is given
parse_query(encoded) == [k \in DOMAIN encoded |-> int(encoded[k])]

\* DatasetsList.get_paginated_obj: query is the set of datasets the filters
\* match, json the offset and limit parameters given; next_url is None for
\* the empty string, otherwise the encoded parameters the url carries
get_paginated_obj(query, json) ==
  LET total_count == Cardinality(query)
      ordered == order_by_name(query)
      offset == get(json, "offset", 0)
      shifted == SubSeq(ordered, offset + 1, Len(ordered))
      limit == get(json, "limit", 0)
      items == IF limit # 0 /\ limit < Len(shifted)
                 THEN SubSeq(shifted, 1, limit) ELSE shifted
      next_offset == offset + Len(items)
  IN [items |-> items,
      next_url |-> IF next_offset < total_count
                     THEN Some(urlencode(DictSet(json, "offset", next_offset)))
                     ELSE None,
      total |-> total_count]

\* the offset and limit parameters of a request, each given or not
PageParameters ==
  {[k \in D |-> IF k = "offset" THEN o ELSE l] :
     D \in SUBSET {"offset", "limit"},
     o \in 0..(MaxDatasets + 1), l \in 0..MaxDatasets}

\* the top-level properties of a mapping: without nested properties, or
\* with the names of the nested ones
PropertyChoices == {None, Some(<<>>), Some(<<"id">>), Some(<<"id", "name">>)}

\* what IndexMapBase.get_mappings finds for the view: the mapping of its
\* template, no template, or a database that cannot be read
TemplateOutcomes ==
  {[kind |-> "mappings", properties |-> m] :
     m \in UNION {[D -> PropertyChoices] : D \in SUBSET {"@timestamp", "run", "sample"}}}
  \cup {[kind |-> "TemplateNotFound", properties |-> EmptyDict],
        [kind |-> "DatabaseError", properties |-> EmptyDict]}

\* the loop of DatasetsMappings._get over mappings["properties"]
RECURSIVE MappingsLoop(_, _, _)
MappingsLoop(properties, todo, result) ==
  IF todo = {} THEN result
  ELSE LET property == CHOOSE q \in todo : TRUE
       IN MappingsLoop(properties, todo \ {property},
            IF properties[property] # None
              THEN DictSet(result, property, TheVal(properties[property]))
              ELSE result)

DatasetsMappings_get_every_property(template) ==
  [status |-> "OK", message |-> None,
   body |-> [q \in DOMAIN template.properties |->
               IF template.properties[q] # None
                 THEN TheVal(template.properties[q]) ELSE <<>>]]

\* DatasetsMappings._get; a DatabaseError is not caught and leaves _get
DatasetsMappings_get(template) ==
  CASE template.kind = "mappings" ->
         [status |-> "OK", message |-> None,
          body |-> MappingsLoop(template.properties, DOMAIN template.properties,
                                EmptyDict)]
    [] template.kind = "TemplateNotFound" ->
         [status |-> "INTERNAL_SERVER_ERROR", message |-> None, body |-> EmptyDict]
    [] template.kind = "DatabaseError" ->
         [status |-> "INTERNAL_SERVER_ERROR",
          message |-> Some("Internal Server Error"), body |-> EmptyDict]

\* a first request to one of the resources
ApiInit ==
  /\ api_request \in
       {Some([api |-> "datasets_list", datasets |-> S, json |-> j]) :
          S \in SUBSET DatasetNames, j \in PageParameters}
       \cup {Some([api |-> "datasets_mappings", template |-> t]) :
                t \in TemplateOutcomes}
  /\ api_response = None
  /\ api_pages = <<>>

\* DatasetsList._get: one page
DatasetsListGet ==
  /\ api_request # None /\ api_response = None
  /\ TheVal(api_request).api = "datasets_list"
  /\ \E page \in {get_paginated_obj(TheVal(api_request).datasets,
                                      TheVal(api_request).json)} :
       /\ api_response' = Some(page)
       /\ api_pages' = api_pages \o page.items
  /\ UNCHANGED <<api_request, collVars, drvVars, partVars, poolVars, chkVars>>

\* the client requests the url it was given as next_url
FollowNextUrl ==
  /\ api_request # None /\ api_response # None
  /\ TheVal(api_request).api = "datasets_list"
  /\ TheVal(api_response).next_url # None
  /\ api_request' =
       Some([TheVal(api_request) EXCEPT
               !.json = parse_query(TheVal(TheVal(api_response).next_url))])
  /\ api_response' = None
  /\ UNCHANGED <<api_pages, collVars, drvVars, partVars, poolVars, chkVars>>

\* DatasetsMappings._get
DatasetsMappingsGet ==
  /\ api_request # None /\ api_response = None
  /\ TheVal(api_request).api = "datasets_mappings"
  /\ api_response' = Some(DatasetsMappings_get(TheVal(api_request).template))
  /\ UNCHANGED <<api_request, api_pages, collVars, drvVars, partVars, poolVars, chkVars>>

ApiNext == DatasetsListGet \/ FollowNextUrl \/ DatasetsMappingsGet

ApiStart == ApiInit /\ CollInit /\ DrvIdle /\ PartIdle /\ PoolIdle /\ ChkIdle

\* one client of the REST resources
ApiSpec == ApiStart /\ [][ApiNext]_vars

\* the request answered, and its answer
Answered(api) == api_response # None /\ TheVal(api_request).api = api
Req == TheVal(api_request)
Resp == TheVal(api_response)

\* C23: a page request returns the name-ordered slice [offset, offset+limit)
\* (to the end when no limit is given), total is the number of matching
\* datasets on every page, next_url is empty exactly when offset plus the
\* number of returned items reaches that number and otherwise carries that
\* sum as the next offset; following next_url from offset 0 with a limit of
\* at least 1 returns every matching dataset exactly once.
C23_Pagination ==
  Answered("datasets_list") =>
    LET N == Cardinality(Req.datasets)
        ordered == order_by_name(Req.datasets)
        offset == get(Req.json, "offset", 0)
        last_index == IF "limit" \in DOMAIN Req.json /\ offset + Req.json["limit"] < N
                        THEN offset + Req.json["limit"] ELSE N
        slice == [i \in 1..(IF last_index > offset THEN last_index - offset ELSE 0) |->
                    ordered[offset + i]]
        reached == offset + Len(Resp.items)
    IN /\ Resp.items = slice
       /\ Resp.total = N
       /\ (Resp.next_url = None) <=> (reached >= N)
       /\ Resp.next_url # None =>
            parse_query(TheVal(Resp.next_url)) = DictSet(Req.json, "offset", reached)
       /\ ("limit" \in DOMAIN Req.json /\ Req.json["limit"] >= 1
            /\ Len(api_pages) = reached /\ Resp.next_url = None)
            => api_pages = ordered

\* C24: when no mapping template exists for the requested view, the
\* mappings API responds NOT_FOUND with the message "Mapping not found"; a
\* database error yields INTERNAL_SERVER_ERROR.
C24_MappingNotFound ==
  Answered("datasets_mappings") =>
    /\ Req.template.kind = "TemplateNotFound" =>
         /\ Resp.status = "NOT_FOUND"
         /\ Resp.message = Some("Mapping not found")
    /\ Req.template.kind = "DatabaseError" => Resp.status = "INTERNAL_SERVER_ERROR"

\* C25: the mappings API result contains exactly the top-level properties of
\* the view's mapping that have nested properties, each mapped to the list
\* of its nested property names; the others are omitted.
C25_MappingsResult ==
  (Answered("datasets_mappings") /\ Req.template.kind = "mappings") =>
    LET properties == Req.template.properties
    IN /\ Resp.status = "OK"
       /\ DOMAIN Resp.body = {q \in DOMAIN properties : properties[q] # None}
       /\ \A q \in DOMAIN Resp.body : Resp.body[q] = TheVal(properties[q])

C25_Witness ==
  /\ Answered("datasets_mappings")
  /\ Req.template.kind = "mappings"
  /\ DOMAIN Req.template.properties = {"@timestamp", "run", "sample"}
  /\ Req.template.properties["@timestamp"] = None
  /\ Req.template.properties["sample"] = Some(<<>>)
  /\ DOMAIN Resp.body = {"run", "sample"}
  /\ Resp.body["run"] = <<"id", "name">>

\* ------------------------------------------------------------------------
\* One partition: merge_run_result_index and its two variants
\* ------------------------------------------------------------------------
\* merge_run_result_index is handed its collection; merge_run_result_mp and
\* merge_non_serializable construct it
Entries == {"merge_run_result_index", "merge_run_result_mp", "merge_non_serializable"}

\* merge_non_serializable calls PbenchCombinedDataCollection() without the
\* three arguments __init__ requires: TypeError
ConstructRaises(e) == e = "merge_non_serializable"

\* the run documents of a partition: two well-formed runs, a run with one
\* sosreport, a run without controller_dir
PartRunDocs ==
  {d \in RunDocs :
     \/ d.ctrl /\ d.sos = Some(<<SosA, SosB>>)
     \/ d.ctrl /\ d.md5 = "r2"
     \/ ~d.ctrl /\ d.md5 = "r1"}

\* its result documents: two complete results of run r1 and a document
\* without _source
PartResultDocs ==
  {d \in ResultDocs :
     /\ d.id # None /\ d.run = "r1" /\ d.iter = "i1" /\ d.client_hostname = "host"
     /\ d.absent \in {{}, {"_source"}}
     /\ d.absent # {} => d.id = Some("x1")}

\* what the server answers in a partition run
PartFetchOutcomes == {o \in FetchOutcomes : o.status = 404 \/ o.second_json}

RECURSIVE Streams(_, _)
Streams(docs, n) ==
  IF n = 0 THEN {<<>>}
  ELSE LET shorter == Streams(docs, n - 1)
       IN shorter \cup {Append(l, d) : l \in {m \in shorter : Len(m) = n - 1},
                                       d \in docs}

\* the record_limit argument: no limit, or a number of valid runs
RecordLimits == {-1, 1, 2}

PartInit ==
  /\ entry \in Entries
  /\ ppc = "enter"
  /\ run_docs \in Streams(PartRunDocs, MaxStream)
  /\ result_docs \in Streams(PartResultDocs, MaxStream)
  /\ record_limit \in RecordLimits
  /\ fed = <<>>

\* the function is entered; the two variants construct their collection
Enter ==
  /\ ppc = "enter"
  /\ IF ConstructRaises(entry)
       THEN ppc' = "raised" /\ raised' = "TypeError"
       ELSE ppc' = "runs" /\ UNCHANGED raised
  /\ UNCHANGED <<run_id_to_data_valid, invalid, results_seen, trackers,
                 result_temp_id, diskhost_map, clientnames_map, calls, last, history>>
  /\ UNCHANGED <<entry, run_docs, result_docs, record_limit, fed>>
  /\ UNCHANGED nonCollVars

\* the termination check of the run loop
LimitReached(limit, valid_runs) == limit # -1 /\ valid_runs >= limit

\* the run loop: one document, then the termination check
FeedRun ==
  /\ ppc = "runs" /\ run_docs # <<>>
  /\ add_run(Head(run_docs))
  /\ run_docs' = Tail(run_docs)
  /\ ppc' = IF raised' # "none" THEN "raised"
            ELSE IF LimitReached(record_limit, trackers'["run"]["valid"])
              THEN "results" ELSE "runs"
  /\ fed' = Append(fed, [op |-> "add_run", doc |-> Head(run_docs),
                         valid_before |-> trackers["run"]["valid"]])
  /\ UNCHANGED <<entry, result_docs, record_limit>>

\* the run index has no more documents
RunsExhausted ==
  /\ ppc = "runs" /\ run_docs = <<>>
  /\ ppc' = "results"
  /\ UNCHANGED <<entry, run_docs, result_docs, record_limit, fed>>
  /\ UNCHANGED <<collVars, nonCollVars>>

InResultLoop_early(pc) == pc \in {"runs", "results"}

\* the result loop starts when the run loop has ended
InResultLoop(pc) == pc = "results"

\* the result loop: one document
FeedResult ==
  /\ InResultLoop(ppc) /\ result_docs # <<>>
  /\ \E doc \in {Head(result_docs)} :
       \E asked \in {PassesScreening(doc)} :
       \E response \in IF asked THEN PartFetchOutcomes ELSE {NoResponse},
          found \in IF asked THEN {{"c1"}} ELSE {{}} :
        add_result(doc, response, found)
  /\ result_docs' = Tail(result_docs)
  /\ ppc' = IF raised' # "none" THEN "raised" ELSE ppc
  /\ fed' = Append(fed, [op |-> "add_result", doc |-> Head(result_docs),
                         valid_before |-> trackers["run"]["valid"]])
  /\ UNCHANGED <<entry, run_docs, record_limit>>

\* the result index has no more documents: the function returns
ResultsExhausted ==
  /\ InResultLoop(ppc) /\ result_docs = <<>>
  /\ ppc' = "done"
  /\ UNCHANGED <<entry, run_docs, result_docs, record_limit, fed>>
  /\ UNCHANGED <<collVars, nonCollVars>>

PartNext == Enter \/ FeedRun \/ RunsExhausted \/ FeedResult \/ ResultsExhausted

PartStart == PartInit /\ CollInit /\ DrvIdle /\ PoolIdle /\ ChkIdle /\ ApiIdle

\* one partition processed by one of the three functions
PartitionSpec == PartStart /\ [][PartNext]_vars

\* the positions of the calls of one kind in the calls made
CallsOf(op) == {i \in DOMAIN fed : fed[i].op = op}

\* C16: run before result.  In the processing of a partition every add_run
\* call precedes every add_result call, and no add_result is made while the
\* run loop is still running.
C16_RunBeforeResult ==
  /\ \A i \in CallsOf("add_result"), j \in CallsOf("add_run") : j < i
  /\ ppc \in {"enter", "runs"} => CallsOf("add_result") = {}

C16_Witness ==
  /\ ppc = "done" /\ entry = "merge_run_result_index"
  /\ CallsOf("add_run") = {1, 2} /\ CallsOf("add_result") = {3, 4}

PartEnded == ppc \in {"done", "raised"}

\* C17 as stated: with a record limit no add_run is made once the number
\* of valid runs has reached the limit, without a limit every run document
\* is passed to add_run, and in both cases every result document of the
\* partition is passed to add_result.
C17_RecordLimit ==
  /\ record_limit # -1 =>
       \A i \in CallsOf("add_run") : fed[i].valid_before < record_limit
  /\ (PartEnded /\ record_limit = -1) => run_docs = <<>>
  /\ PartEnded => result_docs = <<>>

\* ------------------------------------------------------------------------
\* The worker pool: merge_sos_and_perf_parallel.main
\* ------------------------------------------------------------------------
\* the months main() hands to the pool (two of its list of eight)
Partitions == {"2021-07", "2021-08"}

\* the --cpu option; main() creates no pool when it is 1, its default
CpuChoices == {1, 2}

\* the function the pool applies to each partition
WorkerFunction == "merge_non_serializable"

\* what args_generator reads for one month
PartitionArgs ==
  [run_docs : Streams(PartRunDocs, 1), result_docs : Streams(PartResultDocs, 1)]

PoolInit ==
  pool \in [state : {"start"},
            ncpus : CpuChoices,
            args : [Partitions -> PartitionArgs],
            worker : {[p \in Partitions |-> "queued"]},
            colls : {[p \in Partitions |-> None]},
            error : {"none"}]

\* pool.starmap(...): pool is None when ncpus is 1
Starmap ==
  /\ pool.state = "start"
  /\ pool' = IF pool.ncpus = 1
               THEN [pool EXCEPT !.state = "raised", !.error = "AttributeError"]
               ELSE [pool EXCEPT !.state = "mapping"]
  /\ UNCHANGED <<collVars, drvVars, partVars, chkVars, apiVars>>

\* a free worker process takes a partition
WorkerTakes(p) ==
  /\ pool.state = "mapping" /\ pool.worker[p] = "queued"
  /\ Cardinality({q \in Partitions : pool.worker[q] = "running"}) < pool.ncpus
  /\ pool' = [pool EXCEPT !.worker[p] = "running"]
  /\ UNCHANGED <<collVars, drvVars, partVars, chkVars, apiVars>>

\* the worker calls the function on its partition: the construction of the
\* collection raises, and the worker has no collection to give back
WorkerEnds(p) ==
  /\ pool.state = "mapping" /\ pool.worker[p] = "running"
  /\ ConstructRaises(WorkerFunction)
  /\ pool' = [pool EXCEPT !.worker[p] = "TypeError"]
  /\ UNCHANGED <<collVars, drvVars, partVars, chkVars, apiVars>>

\* starmap gives back when every partition has ended: it raises again the
\* exception of a worker
StarmapEnds ==
  /\ pool.state = "mapping"
  /\ \A p \in Partitions : pool.worker[p] \notin {"queued", "running"}
  /\ pool' = [pool EXCEPT
                !.state = IF \E p \in Partitions : pool.worker[p] = "TypeError"
                            THEN "raised" ELSE "returned",
                !.error = IF \E p \in Partitions : pool.worker[p] = "TypeError"
                            THEN "TypeError" ELSE "none"]
  /\ UNCHANGED <<collVars, drvVars, partVars, chkVars, apiVars>>

PoolNext ==
  \/ Starmap
  \/ \E p \in Partitions : WorkerTakes(p)
  \/ \E p \in Partitions : WorkerEnds(p)
  \/ StarmapEnds

PoolStart == PoolInit /\ CollInit /\ DrvIdle /\ PartIdle /\ ChkIdle /\ ApiIdle

\* main(): the partitions processed by the pool, in any interleaving
PoolSpec == PoolStart /\ [][PoolNext]_vars

\* the result ids, the run ids and the enrichment keys of a partition
IdsOf(p) == UNION {d.id : d \in Range(pool.args[p].result_docs)}
RunsOf(p) == {d.md5 : d \in Range(pool.args[p].run_docs)}
KeysOf(p) == {<<d.run, d.iter>> : d \in Range(pool.args[p].result_docs)}

C8_GracefulStop ==
  trail.quitAt # None =>
    LET k == TheVal(trail.quitAt)
    IN /\ \A i \in DOMAIN trail.started : trail.started[i] <= k
       /\ trail.termAt = None => phase # "ABORTED"
       /\ (phase = "DONE" /\ ~trail.intAfterQuit) => k \in trail.finished
       /\ phase = "PROCESSING" => current = k + 1

C8_Witness ==
  /\ phase = "DONE" /\ tarballs = 3
  /\ trail.quitAt = Some(2)
  /\ completed = {1, 2}
  /\ trail.started = <<1, 2>>

\* C9: abort current, continue.  A SIGINT that arrives during an indexing
\* call leaves the run in the processing loop at the next candidate, with no
\* exit status; a candidate whose call was unwound is never marked completed.
C9_AbortCurrentContinues ==
  /\ trail.interrupted \cap completed = {}
  /\ trail.event = "SIGINT" =>
       /\ phase = "PROCESSING"
       /\ status = None
       /\ (current - 1) \in trail.interrupted
       /\ trail.started[Len(trail.started)] = current - 1
       /\ handlers.SIGINT = "SIG_IGN"

C9_Witness ==
  /\ phase = "INDEXING_ONE"
  /\ current = 2
  /\ 1 \in trail.interrupted
  /\ trail.started = <<1, 2>>

\* C10: abort everything.  Once SIGTERM has arrived, in whatever phase and
\* after however many candidates, the run is aborted with exit status 1 and
\* no candidate has been started since.
C10_AbortEverything ==
  trail.termAt # None =>
    /\ phase = "ABORTED"
    /\ status = Some(IntStatus(1))
    /\ Len(trail.started) = trail.startedAtTerm

C10_Witness ==
  /\ trail.termAt = Some("INDEXING_ONE")
  /\ completed = {1}
  /\ current = 2
  /\ status = Some(IntStatus(1))

\* the candidates whose indexing call returned with an error
Failed == trail.finished \ completed

\* C11: bundle failure policy.  In a run that no signal cut short, every
\* candidate's indexing call returns; a candidate whose call failed is in
\* quarantine (unless re-index mode leaves it in place) and counts as one
\* error, every other candidate is marked completed, and with at least one
\* failure the exit status is "completed with errors".
C11_BundleFailurePolicy ==
  /\ quarantined \subseteq Failed
  /\ errors = Cardinality(Failed)
  /\ \A b \in Failed :
       ~(options.re_index /\ b \in indexed_before) => b \in quarantined
  /\ (trail.event = "IndexOne" /\ (current - 1) \in Failed) =>
        phase = "PROCESSING" /\ status = None
  /\ (phase = "DONE" /\ trail.collected /\ tarballs > 0
        /\ ~sigquit_interrupt /\ trail.interrupted = {}) =>
        /\ trail.finished = 1..tarballs
        /\ completed = (1..tarballs) \ Failed
        /\ status = Some(IF Failed # {} THEN ErrorCode("COMPLETED_WITH_ERRORS")
                                        ELSE IntStatus(0))

C11_Witness ==
  /\ phase = "DONE" /\ tarballs = 3
  /\ completed = {1, 3} /\ quarantined = {2} /\ errors = 1
  /\ status = Some(ErrorCode("COMPLETED_WITH_ERRORS"))

C13_ReindexNeverQuarantines ==
  options.re_index =>
    /\ quarantined \cap indexed_before = {}
    /\ (trail.event = "IndexOne" /\ (current - 1) \in Failed \cap indexed_before) =>
         /\ phase = "PROCESSING"
         /\ errors > 0
         /\ (current - 1) \notin quarantined

C13_Witness ==
  /\ options.re_index /\ indexed_before = {1, 2} /\ tarballs = 3
  /\ Failed = {1, 3} /\ quarantined = {3} /\ completed = {2}
  /\ phase = "DONE"

\* what main() met during the set-up
Cfg == TheVal(trail.cfg)

\* the try block is executed only with a config file named
CfgRaised == IF options.cfg_name THEN Cfg.exc ELSE "none"

CfgDirsInvalid == ~Cfg.incoming_ok \/ ~Cfg.qdir_set \/ ~Cfg.qdir_ok

\* C14 as stated: every configuration error gives its code, an invalid
\* INCOMING or quarantine directory option always BAD_CFG, and collect_tb
\* is not called.
C14_ConfigErrors ==
  trail.cfg # None =>
    /\ ~options.cfg_name => status = Some(ErrorCode("CFG_ERROR"))
    /\ CfgRaised \in {"ConfigFileError", "ConfigParserError"} =>
         status = Some(ErrorCode("CFG_ERROR"))
    /\ CfgRaised = "BadConfig" => status = Some(ErrorCode("BAD_CFG"))
    /\ CfgRaised = "JsonFileError" => status = Some(ErrorCode("MAPPING_ERROR"))
    /\ (options.cfg_name /\ CfgRaised = "none" /\ CfgDirsInvalid) =>
         status = Some(ErrorCode("BAD_CFG"))
    /\ (~options.cfg_name \/ CfgRaised # "none" \/ CfgDirsInvalid) =>
         ~trail.collected /\ trail.started = <<>>

\* C14 amended: the directory options are evaluated only when no dump option
\* was given; with a dump option main returns 0 before it looks at them.
C14_ConfigErrorsAmended ==
  trail.cfg # None =>
    /\ ~options.cfg_name => status = Some(ErrorCode("CFG_ERROR"))
    /\ CfgRaised \in {"ConfigFileError", "ConfigParserError"} =>
         status = Some(ErrorCode("CFG_ERROR"))
    /\ CfgRaised = "BadConfig" => status = Some(ErrorCode("BAD_CFG"))
    /\ CfgRaised = "JsonFileError" => status = Some(ErrorCode("MAPPING_ERROR"))
    /\ (options.cfg_name /\ CfgRaised = "none" /\ CfgDirsInvalid) =>
         status = Some(IF options.dump_index_patterns \/ options.dump_templates
                         THEN IntStatus(0) ELSE ErrorCode("BAD_CFG"))
    /\ (~options.cfg_name \/ CfgRaised # "none" \/ CfgDirsInvalid) =>
         /\ phase \in {"DONE", "ABORTED"}
         /\ ~trail.collected /\ trail.started = <<>>

C14_Witness ==
  /\ trail.cfg # None /\ options.cfg_name
  /\ ~options.dump_index_patterns /\ ~options.dump_templates
  /\ CfgRaised = "none" /\ Cfg.incoming_ok /\ Cfg.qdir_set /\ ~Cfg.qdir_ok
  /\ status = Some(ErrorCode("BAD_CFG")) /\ phase = "DONE"

\* C15 as stated: a result document that lacks a required field is
\* recovered locally.  After add_result of such a document no exception has
\* ended the processing, the document is in the invalid-result partition, and
\* the counter of the flag of its first absent field has counted it.
C15_ValidationRecovered ==
  (last.op = "add_result" /\ LastResultDoc.absent # {}) =>
     LET flag == ChainFlags[FirstMissing(LastResultDoc)]
     IN /\ ~last.raised /\ raised = "none"
        /\ \E k \in DOMAIN invalid.result : invalid.result[k].doc = LastResultDoc
        /\ flag \in DOMAIN trackers["result"]
        /\ trackers["result"][flag] > 0

\* C19 as stated: an enrichment fetch that returns a failure status or a
\* body that is not JSON is recovered locally.  After the add_result that
\* made the fetch no exception has ended the processing, the flag is set in
\* the record and counted, the record's disk and host names are empty, the
\* empty pair is cached under (run id, iteration), and the record is in the
\* valid map.
C19_EnrichmentRecovered ==
  (/\ last.op = "add_result" /\ last.response # None
   /\ \/ TheVal(last.response).status # 200
      \/ ~TheVal(last.response).json
      \/ ~TheVal(last.response).second_json) =>
     LET r == LastResultDoc.run
         key == <<r, LastResultDoc.iter>>
     IN /\ ~last.raised /\ raised = "none"
        /\ r \in DOMAIN run_id_to_data_valid
        /\ run_id_to_data_valid[r].disknames = Some(<<>>)
        /\ run_id_to_data_valid[r].hostnames = Some({})
        /\ key \in DOMAIN diskhost_map /\ diskhost_map[key] = <<<<>>, {}>>
        /\ \E f \in Range(FioExtractionNames) :
              /\ run_id_to_data_valid[r].diagnostics.fio_extraction[f] = TRUE
              /\ trackers["fio_extraction"][f] > 0

\* the stages whose diagnostic a record holds
Populated(rec) == {type \in Stages : "valid" \in DOMAIN rec.diagnostics[type]}

\* C26: every record in the valid map has valid = true in every stage
\* diagnostic populated so far (run, result, enrichment fetch, client side);
\* a record with an invalid stage diagnostic is never in the valid map.
C26_ValidSetInvariant ==
  \A id \in DOMAIN run_id_to_data_valid :
    \A type \in Populated(run_id_to_data_valid[id]) :
      run_id_to_data_valid[id].diagnostics[type]["valid"] = TRUE

\* C27: no run id is a key of the valid map and of an invalid partition at
\* the same time, also when run documents repeat a run id, one valid and
\* one invalid.
C27_ValidInvalidExclusive ==
  \A id \in DOMAIN run_id_to_data_valid :
    /\ id \notin DOMAIN invalid.run
    /\ id \notin DOMAIN invalid.client_side
    /\ IdKey(id) \notin DOMAIN invalid.result

\* C30: each stage's total_records equals the number of documents that
\* entered the stage (run: add_run calls; result: add_result calls;
\* enrichment and client side: results the stage was evaluated for), each
\* flag counter equals the number of those documents on which the flag
\* fired, and valid never exceeds total_records.
C30_CounterAccounting ==
  /\ \A type \in Stages :
       /\ trackers[type]["total_records"] = history.entered[type]
       /\ trackers[type]["valid"] <= trackers[type]["total_records"]
       /\ \A n \in DOMAIN trackers[type] \ {"valid", "total_records"} :
            trackers[type][n] = Count(history.fired, <<type, n>>)
  /\ \A k \in DOMAIN history.fired : k[2] \in DOMAIN trackers[k[1]]

\* ------------------------------------------------------------------------
\* C31: every flag a check sets to true on a document is one of the names
\* its stage declares, so the freshly built trackers hold a counter for it
\* and counting the fired flags never stops on an absent counter.
C31_DeclaredFlags ==
  /\ \A type \in Stages :
       DOMAIN trackers[type] = Range(StageNames(type)) \cup {"valid", "total_records"}
  /\ \A k \in DOMAIN history.fired : k[2] \in DOMAIN trackers_initialization[k[1]]
  /\ (last.op = "add_result" /\ ~result_screening_raises(LastResultDoc)
        /\ ~last.valid)
       => raised = "none"

\* ------------------------------------------------------------------------
\* C32: the client-name stage of a result is valid exactly when the set of
\* client names resolved for its run has one element; an empty set is
\* flagged 0_clients and a set of two or more 2_or_more_clients; and a
\* record carries client names only if its client-side diagnostic is valid.
C32_ClientNamesValidity ==
  /\ (last.op = "add_result" /\ last.valid /\ ~last.raised) =>
       LET names == clientnames_map[LastResultDoc.run]
           diag == run_id_to_data_valid[LastResultDoc.run].diagnostics.client_side
       IN /\ diag["valid"] = (Cardinality(names) = 1)
          /\ last.clientValid = diag["valid"]
          /\ diag["0_clients"] = (names = {})
          /\ diag["2_or_more_clients"] = (Cardinality(names) >= 2)
  /\ \A rec \in Range(run_id_to_data_valid) \cup Range(invalid.run) :
       rec.clientnames # None =>
         /\ "valid" \in DOMAIN rec.diagnostics.client_side
         /\ rec.diagnostics.client_side["valid"] = TRUE
         /\ Cardinality(TheVal(rec.clientnames)) = 1

\* a record that carries the one client name of its run
C32_Witness ==
  /\ last.op = "add_result" /\ last.valid /\ ~last.raised
  /\ Cardinality(clientnames_map[LastResultDoc.run]) = 1
  /\ run_id_to_data_valid[LastResultDoc.run].clientnames
       = Some(clientnames_map[LastResultDoc.run])

\* ------------------------------------------------------------------------
\* C33: over any sequence of add_result calls the server receives at most
\* one GET request for the fio-result.txt of each (run id, iteration name).
C33_OneGetPerKey ==
  \A key \in DOMAIN history.gets : history.gets[key] <= 1

\* ------------------------------------------------------------------------
\* C36: the seen-result check records the id of every document it meets,
\* whatever the later result checks say of the document; a later document
\* with an id already recorded is flagged a duplicate and rejected, even if
\* nothing else is wrong with it, and the valid records are left as they were.
C36_SeenEvenWhenRejected ==
  [][last'.op = "add_result" =>
       /\ LastResultDoc'.id \subseteq results_seen'
       /\ (LastResultDoc'.id # None /\ TheVal(LastResultDoc'.id) \in results_seen) =>
            /\ last'.dup /\ ~last'.valid
            /\ run_id_to_data_valid' = run_id_to_data_valid
            /\ ~last'.raised => LastResultDoc' \in history'.rejected]_vars

\* a document with nothing wrong but its id, which an earlier document
\* rejected by a later check (unknown run, aggregate client hostname, missing
\* field) had already used
C36_Witness ==
  /\ last.op = "add_result" /\ last.dup /\ ~last.raised
  /\ LastResultDoc.absent = {} /\ LastResultDoc.client_hostname # "all"
  /\ LastResultDoc.run \in DOMAIN run_id_to_data_valid
  /\ \E d \in history.rejected :
       /\ d.id = LastResultDoc.id /\ d # LastResultDoc
       /\ (d.absent # {} \/ d.client_hostname = "all"
             \/ d.run \notin DOMAIN run_id_to_data_valid)

\* ------------------------------------------------------------------------
\* C37: there is one record per run id: add_result never adds a key to the
\* valid-run map, and after a valid result for a run that already took one,
\* the record of the run holds the fields of this result, not of the first.
C37_OneRecordPerRun ==
  [][last'.op = "add_result" =>
       /\ DOMAIN run_id_to_data_valid' = DOMAIN run_id_to_data_valid
       /\ last'.valid =>
            LET rec == run_id_to_data_valid'[LastResultDoc'.run]
            IN /\ rec.iteration_name = Some(LastResultDoc'.iter)
               /\ rec.run_id = LastResultDoc'.run
               /\ \A r \in DOMAIN run_id_to_data_valid :
                    r # LastResultDoc'.run =>
                      run_id_to_data_valid'[r] = run_id_to_data_valid[r]]_vars

\* the second valid result of a run, of another iteration than the first
C37_Witness ==
  /\ last.op = "add_result" /\ last.valid /\ ~last.raised /\ last.runBefore
  /\ \E key \in history.enriched :
       key[1] = LastResultDoc.run /\ key[2] # LastResultDoc.iter
  /\ run_id_to_data_valid[LastResultDoc.run].iteration_name = Some(LastResultDoc.iter)

\* ------------------------------------------------------------------------
\* the state of the run a signal may act on: everything but the latest event
DrvFrame ==
  <<phase, options, status, handlers, tarballs, indexed_before, current,
    sigquit_interrupt, completed, quarantined, errors, reported>>

\* the step changed nothing but the record of the latest event
OnlyEventNoted ==
  /\ UNCHANGED DrvFrame
  /\ trail' = [trail EXCEPT !.event = trail'.event]

\* C34: SIGINT takes effect exactly when an indexing call is in flight;
\* delivered in any other state it changes nothing of the run, neither the
\* candidates processed nor the exit status.  SIGQUIT and SIGHUP delivered
\* before process_tb has set their handlers change nothing either.
C34_SignalsIgnoredOutsideWindow ==
  [][/\ trail'.event \in {"SIGINT", "SIGINT ignored"} =>
          /\ (trail'.event = "SIGINT") = (phase = "INDEXING_ONE")
          /\ phase # "INDEXING_ONE" => OnlyEventNoted
     /\ (trail'.event \in {"SIGQUIT", "SIGQUIT ignored", "SIGHUP", "SIGHUP ignored"}
           /\ phase \in {"CONFIG", "COLLECTING"}) =>
          /\ trail'.event \in {"SIGQUIT ignored", "SIGHUP ignored"}
          /\ OnlyEventNoted]_vars

\* a SIGINT between two candidates, which leaves the run as it was
C34_Witness ==
  /\ trail.event = "SIGINT ignored"
  /\ phase = "PROCESSING" /\ current = 2 /\ tarballs = 3
  /\ completed = {1} /\ status = None

\* ------------------------------------------------------------------------
\* C38: candidates are processed only when collect_tb returned status 0 and
\* a non-empty list.  When it returned another status, that status is the
\* exit status and no candidate is indexed; when it returned status 0 and no
\* candidate, the exit status is 0 and no candidate is indexed.
C38_ProcessingNeedsCandidates ==
  /\ trail.returned = None =>
       trail.started = <<>> /\ phase \notin {"PROCESSING", "INDEXING_ONE"}
  /\ trail.returned # None =>
       LET ret == TheVal(trail.returned)
       IN /\ (trail.started # <<>> \/ phase \in {"PROCESSING", "INDEXING_ONE"}) =>
               ret.status = IntStatus(0) /\ ret.tarballs > 0
          /\ ret.status # IntStatus(0) =>
               /\ phase = "DONE" /\ status = Some(ret.status)
               /\ trail.started = <<>> /\ completed = {} /\ errors = 0
          /\ (ret.status = IntStatus(0) /\ ret.tarballs = 0) =>
               /\ phase = "DONE" /\ status = Some(IntStatus(0))
               /\ trail.started = <<>> /\ completed = {} /\ errors = 0

\* collect_tb failed although it found candidates
C38_Witness ==
  /\ trail.returned = Some([status |-> ErrorCode("GENERIC_ERROR"), tarballs |-> 2])
  /\ phase = "DONE" /\ status = Some(ErrorCode("GENERIC_ERROR"))
  /\ trail.started = <<>>

\* ------------------------------------------------------------------------
\* C39: within one run each candidate is started at most once and the
\* candidates are started in their order; no candidate is both completed
\* and quarantined; and the number of completed candidates plus the number
\* of errors never exceeds the number of candidates started.
C39_StartedOnceInOrder ==
  /\ \A i, j \in DOMAIN trail.started :
       i < j => trail.started[i] < trail.started[j]
  /\ \A i \in DOMAIN trail.started : trail.started[i] \in 1..tarballs
  /\ completed \cap quarantined = {}
  /\ Cardinality(completed) + errors <= Len(trail.started)

\* three candidates: one completed, one unwound by SIGINT, one quarantined
C39_Witness ==
  /\ phase = "DONE" /\ trail.started = <<1, 2, 3>>
  /\ completed = {1} /\ trail.interrupted = {2} /\ quarantined = {3}
  /\ errors = 1

\* ------------------------------------------------------------------------
\* the successions of phases of one run
PhaseOrder ==
  {<<"CONFIG", "COLLECTING">>, <<"CONFIG", "DONE">>, <<"CONFIG", "ABORTED">>,
   <<"COLLECTING", "PROCESSING">>, <<"COLLECTING", "DONE">>,
   <<"COLLECTING", "ABORTED">>,
   <<"PROCESSING", "INDEXING_ONE">>, <<"PROCESSING", "DONE">>,
   <<"PROCESSING", "ABORTED">>,
   <<"INDEXING_ONE", "PROCESSING">>, <<"INDEXING_ONE", "ABORTED">>}

\* C35: with every indexing call returning, every run of the driver ends
\* DONE or ABORTED whatever signals arrive; the phases follow one another
\* only as COLLECTING, PROCESSING, INDEXING_ONE once per candidate started;
\* and once the run is DONE or ABORTED no candidate is started any more.
C35_DriverProgress ==
  /\ <>(phase \in {"DONE", "ABORTED"})
  /\ [][/\ phase' # phase => <<phase, phase'>> \in PhaseOrder
        /\ (phase' = "INDEXING_ONE" /\ phase # "INDEXING_ONE") =>
             trail'.started = Append(trail.started, current)
        /\ trail'.started # trail.started => phase' = "INDEXING_ONE"
        /\ phase \in {"DONE", "ABORTED"} =>
             phase' = phase /\ trail'.started = trail.started]_vars

\* a run that a graceful stop ended after two of three candidates, the
\* first of them unwound by SIGINT
C35_Witness ==
  /\ phase = "DONE" /\ trail.event = "Finish"
  /\ tarballs = 3 /\ trail.started = <<1, 2>>
  /\ trail.interrupted = {1} /\ sigquit_interrupt /\ completed = {2}

====
